---- MODULE Spec2Model ----
(***************************************************************************)
(* Model of the Bruno MCP server core: the TTL cache and performance       *)
(* manager (performance.ts), collection discovery, request listing and     *)
(* the executor invocations of the CLI wrapper (bruno-cli.ts), and the     *)
(* discovery tool handler (index.ts).                                      *)
(***************************************************************************)
EXTENDS Integers, Sequences, FiniteSets, TLC

VARIABLES
    markers,      \* directories that contain a file named bruno.json
    unreadable,   \* directories on which fs.readdir rejects
    cacheEnabled, \* config.performance.cacheEnabled
    cache,        \* PerformanceManager: namespace -> Map<string, CacheEntry>
    now,          \* Date.now()
    disc,         \* observation of the last discovery call
    instance,     \* the Cache instance the direct cache operations address
    cret,         \* observation of the last Cache operation
    lastSet,      \* history: namespace -> key -> time of the latest set
    collections,  \* filesystem state of each collection path (listRequests)
    pc,           \* position of each listRequests invocation
    local,        \* locals of each listRequests invocation
    writeOrder,   \* history: order in which invocations wrote the cache
    timeouts,     \* config.timeout {request, collection}
    run,          \* observation of the last call that invokes the executor
    files,        \* the .bru files of the collection, in readdir order
    envContent,   \* content of the environment file
    details,      \* observation of the last parsing call
    norm,         \* observation of the last parseRunResult call
    config,       \* the configuration the server was started with
    tool,         \* the arguments of a tool call and the observation of its handling
    logs,         \* the log file and its rotated files: index -> content
    metrics,      \* PerformanceManager.metrics
    listing       \* the requests listRequests returned

vars == <<markers, unreadable, cacheEnabled, cache, now, disc, instance, cret, lastSet,
          collections, pc, local, writeOrder, timeouts, run,
          files, envContent, details, norm, config, tool, logs, metrics,
          listing>>

discVars == <<markers, unreadable, disc>>
cacheVars == <<cache, now, instance, cret, lastSet>>
listVars == <<collections, pc, local, writeOrder>>
runVars == <<timeouts, run>>
textVars == <<files, envContent, details, norm>>
auxVars == <<config, tool, logs, metrics, listing>>

----------------------------------------------------------------------------
(* Bounds *)

ChainDepth == 11   \* depth of the deepest directory of the tree
MaxHits == 2       \* reads of one entry stop here
MaxValue == 2      \* cached values and collection versions are 1..MaxValue

Min(a, b) == IF a < b THEN a ELSE b
Max(a, b) == IF a > b THEN a ELSE b

----------------------------------------------------------------------------
(* Cache<T> and PerformanceManager *)

Namespaces == {"requestList", "collectionDiscovery", "environmentList", "fileContent"}

\* performance.cacheTTL, in clock ticks
CacheTTL == 2

\* the clock stops advancing once every namespace's TTL can have elapsed
MaxTime == 2 * CacheTTL + 1

\* the TTL each namespace's Cache is constructed with
TTL(ns) ==
    CASE ns = "collectionDiscovery" -> CacheTTL * 2
      [] ns = "fileContent" -> CacheTTL \div 2
      [] OTHER -> CacheTTL

EmptyMap == [k \in {} |-> 0]

MapSet(m, k, e) == [x \in (DOMAIN m) \cup {k} |-> IF x = k THEN e ELSE m[x]]

MapDelete(m, k) == [x \in (DOMAIN m) \ {k} |-> m[x]]

\* a set that leaves an entry already stored under the key in place
CacheSetKeepExisting(m, k, v, t) ==
    IF k \in DOMAIN m THEN m
    ELSE MapSet(m, k, [data |-> v, timestamp |-> t, hits |-> 0])

\* Cache.set: the new entry replaces whatever was stored under the key
CacheSet(m, k, v, t) == MapSet(m, k, [data |-> v, timestamp |-> t, hits |-> 0])

\* the expiry test with the operands of the subtraction exchanged
isExpiredSwapped(entry, t, ttl) == entry.timestamp - t > ttl

\* the expiry test of Cache.get and Cache.cleanup
isExpired(entry, t, ttl) == t - entry.timestamp > ttl

\* Cache.get: the map after the call and the value returned
CacheGet(m, k, t, ttl) ==
    IF k \notin DOMAIN m
    THEN [map |-> m, hit |-> FALSE, data |-> <<>>]
    ELSE IF isExpired(m[k], t, ttl)
         THEN [map |-> MapDelete(m, k), hit |-> FALSE, data |-> <<>>]
         ELSE [map |-> [m EXCEPT ![k].hits = @ + 1], hit |-> TRUE, data |-> m[k].data]

CacheDelete(m, k) == MapDelete(m, k)

CacheClear(m) == EmptyMap

\* a sweep that rebuilds the surviving entries with fresh hit counters
cleanupRebuilding(m, t, ttl) ==
    [x \in {k \in DOMAIN m : ~isExpired(m[k], t, ttl)} |-> [m[x] EXCEPT !.hits = 0]]

\* Cache.cleanup: drops every expired entry
cleanup(m, t, ttl) ==
    [x \in {k \in DOMAIN m : ~isExpired(m[k], t, ttl)} |-> m[x]]

RECURSIVE SumHits(_, _)
SumHits(m, ks) ==
    IF ks = {} THEN 0
    ELSE LET k == CHOOSE x \in ks : TRUE IN m[k].hits + SumHits(m, ks \ {k})

\* Cache.getStats: the map after the sweep and the statistics reported
CacheGetStats(m, t, ttl) ==
    LET swept == cleanup(m, t, ttl) IN
    [map |-> swept, size |-> Cardinality(DOMAIN swept),
     totalHits |-> SumHits(swept, DOMAIN swept), keys |-> DOMAIN swept]

\* PerformanceManager.getCached*: bypassed when caching is disabled
getCached(ns, k) ==
    IF ~cacheEnabled
    THEN [map |-> cache[ns], hit |-> FALSE, data |-> <<>>]
    ELSE CacheGet(cache[ns], k, now, TTL(ns))

\* PerformanceManager.cache*: the namespace's map after the call
cacheStore(m, ns, k, v) ==
    IF ~cacheEnabled THEN m ELSE CacheSet(m, k, v, now)

----------------------------------------------------------------------------
(* The directory tree *)

Chain(n) == [i \in 1..n |-> "d"]

ChainDirs == {Chain(n) : n \in 0..ChainDepth}

SideDirs == {<<"x">>, <<"d", "x">>, <<".git">>, <<"node_modules">>,
             <<"node_modules", "x">>}

Dirs == ChainDirs \cup SideDirs

\* directories that may or may not hold a bruno.json
MarkerCandidates ==
    {<<"d">>, <<"d", "d">>, <<"x">>, Chain(ChainDepth)}

\* directories that may or may not be readable
UnreadableCandidates == {<<>>, <<"d">>}

\* directories that may or may not hold a bruno.json, in and below the
\* directories the walk leaves out
ExcludedMarkerCandidates ==
    {<<".git">>, <<"node_modules">>, <<"node_modules", "x">>, <<"x">>}

SearchPaths == {<<>>, <<"d">>}

\* the order in which readdir lists names
NameOrder == <<".git", "bruno.json", "d", "node_modules", "x">>

HiddenNames == {".git"}

\* path.join(dirPath, name)
join(dirPath, name) == Append(dirPath, name)

\* fs.readdir(dirPath, {withFileTypes: true}) of a readable directory
readdir(dirPath) ==
    LET Exists(name) ==
            IF name = "bruno.json" THEN dirPath \in markers
            ELSE join(dirPath, name) \in Dirs
        Entry(name) == [name |-> name, isFile |-> name = "bruno.json",
                        isDirectory |-> name # "bruno.json"]
        names == SelectSeq(NameOrder, Exists)
    IN [i \in 1..Len(names) |-> Entry(names[i])]

----------------------------------------------------------------------------
(* Collection discovery: BrunoCLI.discoverCollections *)

\* the hard ceiling on the search depth
DepthCap == 10

\* the default of the maxDepth parameter, in the core and in the tool handler
DefaultMaxDepth == 5

\* the search depth without the ceiling
maxSearchDepthUncapped(maxDepth) == maxDepth

\* const maxSearchDepth = Math.min(maxDepth, 10)
maxSearchDepth(maxDepth) == Min(maxDepth, DepthCap)

\* entries.some(entry => entry.isFile() && entry.name === 'bruno.json')
hasBrunoJson(entries) ==
    \E i \in 1..Len(entries) : entries[i].isFile /\ entries[i].name = "bruno.json"

\* the test without its conditions on the name
descendsIntoAny(entry) == entry.isDirectory

\* the test that lets the walk recurse into a directory entry
descendsInto(entry) ==
    entry.isDirectory /\ entry.name \notin HiddenNames /\ entry.name # "node_modules"

RECURSIVE searchDirectory(_, _, _, _)
RECURSIVE searchEntries(_, _, _, _, _, _)

\* searchEntries where a subdirectory whose readdir rejected ends the loop
searchEntriesStopping(entries, i, dirPath, currentDepth, maxSearch, acc) ==
    IF i > Len(entries) THEN acc
    ELSE LET acc1 == IF descendsInto(entries[i])
                     THEN searchDirectory(join(dirPath, entries[i].name),
                                          currentDepth + 1, maxSearch, acc)
                     ELSE acc
         IN IF /\ descendsInto(entries[i])
               /\ currentDepth + 1 <= maxSearch
               /\ join(dirPath, entries[i].name) \in unreadable
            THEN acc1
            ELSE searchEntries(entries, i + 1, dirPath, currentDepth, maxSearch, acc1)

\* the for loop over the entries of dirPath, from entry i on
searchEntries(entries, i, dirPath, currentDepth, maxSearch, acc) ==
    IF i > Len(entries) THEN acc
    ELSE LET acc1 == IF descendsInto(entries[i])
                     THEN searchDirectory(join(dirPath, entries[i].name),
                                          currentDepth + 1, maxSearch, acc)
                     ELSE acc
         IN searchEntries(entries, i + 1, dirPath, currentDepth, maxSearch, acc1)

\* searchDirectory without the return that follows collections.push
searchDirectoryDescending(dirPath, currentDepth, maxSearch, acc) ==
    IF currentDepth > maxSearch THEN acc
    ELSE LET acc1 == [acc EXCEPT !.reads = @ \cup {dirPath}] IN
         IF dirPath \in unreadable \/ dirPath \notin Dirs
         THEN acc1
         ELSE LET entries == readdir(dirPath)
                  acc2 == IF hasBrunoJson(entries)
                          THEN [acc1 EXCEPT !.collections = Append(@, dirPath)]
                          ELSE acc1
              IN searchEntries(entries, 1, dirPath, currentDepth, maxSearch, acc2)

\* acc.collections is the closure's collections array, acc.reads the set of
\* directories on which readdir has been called
searchDirectory(dirPath, currentDepth, maxSearch, acc) ==
    IF currentDepth > maxSearch THEN acc
    ELSE LET acc1 == [acc EXCEPT !.reads = @ \cup {dirPath}] IN
         IF dirPath \in unreadable \/ dirPath \notin Dirs
         THEN acc1   \* readdir rejects; the catch logs and returns
         ELSE LET entries == readdir(dirPath) IN
              IF hasBrunoJson(entries)
              THEN [acc1 EXCEPT !.collections = Append(@, dirPath)]
              ELSE searchEntries(entries, 1, dirPath, currentDepth, maxSearch, acc1)

\* the walk of discoverCollections when the cache does not answer
walk(searchPath, maxDepth) ==
    searchDirectory(searchPath, 0, maxSearchDepth(maxDepth),
                    [collections |-> <<>>, reads |-> {}])

\* discoverCollections: what it returns, what it read, and the discovery
\* cache after the call
discoverCollections(searchPath, maxDepth) ==
    LET cached == getCached("collectionDiscovery", searchPath) IN
    IF cached.hit
    THEN [kind |-> "value", value |-> cached.data, reads |-> {},
          fromCache |-> TRUE, map |-> cached.map]
    ELSE LET w == walk(searchPath, maxDepth) IN
         [kind |-> "value", value |-> w.collections, reads |-> w.reads,
          fromCache |-> FALSE,
          map |-> cacheStore(cached.map, "collectionDiscovery", searchPath, w.collections)]

\* params.maxDepth || 5
orDefault(hasValue, value, default) ==
    IF ~hasValue \/ value = 0 THEN default ELSE value

DepthInputs == {-1, 0, 1, DepthCap, DepthCap + 2}

NoDisc == [op |-> "none", searchPath |-> <<>>, hasParam |-> FALSE, param |-> 0,
           maxDepth |-> 0, kind |-> "none", value |-> <<>>, reads |-> {},
           fromCache |-> FALSE]

\* a read that the hit counter bound still allows
CanRead(ns, k) ==
    k \in DOMAIN cache[ns] => cache[ns][k].hits < MaxHits

\* a direct call of BrunoCLI.discoverCollections(searchPath, maxDepth)
DiscoverCollections(searchPath, hasMaxDepth, maxDepth) ==
    /\ CanRead("collectionDiscovery", searchPath)
    /\ hasMaxDepth \/ maxDepth = 0
    /\ LET d == IF hasMaxDepth THEN maxDepth ELSE DefaultMaxDepth
           r == discoverCollections(searchPath, d)
       IN /\ cache' = [cache EXCEPT !["collectionDiscovery"] = r.map]
          /\ disc' = [op |-> "core", searchPath |-> searchPath,
                      hasParam |-> hasMaxDepth, param |-> maxDepth, maxDepth |-> d,
                      kind |-> r.kind, value |-> r.value, reads |-> r.reads,
                      fromCache |-> r.fromCache]
    /\ UNCHANGED textVars
    /\ UNCHANGED <<markers, unreadable, cacheEnabled, auxVars, now, instance, cret, lastSet>>
    /\ UNCHANGED <<listVars, runVars>>

\* the bruno_discover_collections tool handler
HandleDiscoverCollections(searchPath, hasMaxDepth, maxDepth) ==
    /\ CanRead("collectionDiscovery", searchPath)
    /\ hasMaxDepth \/ maxDepth = 0
    /\ LET d == orDefault(hasMaxDepth, maxDepth, DefaultMaxDepth)
           r == discoverCollections(searchPath, d)
       IN /\ cache' = [cache EXCEPT !["collectionDiscovery"] = r.map]
          /\ disc' = [op |-> "tool", searchPath |-> searchPath,
                      hasParam |-> hasMaxDepth, param |-> maxDepth, maxDepth |-> d,
                      kind |-> r.kind, value |-> r.value, reads |-> r.reads,
                      fromCache |-> r.fromCache]
    /\ UNCHANGED textVars
    /\ UNCHANGED <<markers, unreadable, cacheEnabled, auxVars, now, instance, cret, lastSet>>
    /\ UNCHANGED <<listVars, runVars>>

\* PerformanceManager.clearCache
ClearCache ==
    /\ cache' = [ns \in Namespaces |-> CacheClear(cache[ns])]
    /\ UNCHANGED textVars
    /\ UNCHANGED <<markers, unreadable, cacheEnabled, auxVars, now, disc, instance, cret, lastSet>>
    /\ UNCHANGED <<listVars, runVars>>

----------------------------------------------------------------------------
(* Operations on one Cache instance *)

CacheKeys == {"a", "b"}

Values == 1..MaxValue

NoCret == [op |-> "none", key |-> "a", hit |-> FALSE, value |-> 0,
           size |-> 0, keys |-> {}, totalHits |-> 0]

\* Date.now() advances
Tick ==
    /\ now < MaxTime
    /\ now' = now + 1
    /\ cret' = [NoCret EXCEPT !.op = "tick"]
    /\ UNCHANGED textVars
    /\ UNCHANGED <<markers, unreadable, cacheEnabled, auxVars, cache, disc, instance, lastSet>>
    /\ UNCHANGED <<listVars, runVars>>

Set(k, v) ==
    /\ cache' = [cache EXCEPT ![instance] = CacheSet(@, k, v, now)]
    /\ lastSet' = MapSet(lastSet, k, now)
    /\ cret' = [NoCret EXCEPT !.op = "set", !.key = k, !.value = v]
    /\ UNCHANGED textVars
    /\ UNCHANGED <<markers, unreadable, cacheEnabled, auxVars, now, disc, instance>>
    /\ UNCHANGED <<listVars, runVars>>

Get(k) ==
    /\ CanRead(instance, k)
    /\ LET r == CacheGet(cache[instance], k, now, TTL(instance)) IN
       /\ cache' = [cache EXCEPT ![instance] = r.map]
       /\ cret' = [NoCret EXCEPT !.op = "get", !.key = k, !.hit = r.hit,
                                 !.value = IF r.hit THEN r.data ELSE 0]
    /\ UNCHANGED textVars
    /\ UNCHANGED <<markers, unreadable, cacheEnabled, auxVars, now, disc, instance, lastSet>>
    /\ UNCHANGED <<listVars, runVars>>

\* Cache.has: this.get(key) !== null
Has(k) ==
    /\ CanRead(instance, k)
    /\ LET r == CacheGet(cache[instance], k, now, TTL(instance)) IN
       /\ cache' = [cache EXCEPT ![instance] = r.map]
       /\ cret' = [NoCret EXCEPT !.op = "has", !.key = k, !.hit = r.hit]
    /\ UNCHANGED textVars
    /\ UNCHANGED <<markers, unreadable, cacheEnabled, auxVars, now, disc, instance, lastSet>>
    /\ UNCHANGED <<listVars, runVars>>

Delete(k) ==
    /\ cache' = [cache EXCEPT ![instance] = CacheDelete(@, k)]
    /\ cret' = [NoCret EXCEPT !.op = "delete", !.key = k]
    /\ UNCHANGED textVars
    /\ UNCHANGED <<markers, unreadable, cacheEnabled, auxVars, now, disc, instance, lastSet>>
    /\ UNCHANGED <<listVars, runVars>>

Clear ==
    /\ cache' = [cache EXCEPT ![instance] = CacheClear(@)]
    /\ cret' = [NoCret EXCEPT !.op = "clear"]
    /\ UNCHANGED textVars
    /\ UNCHANGED <<markers, unreadable, cacheEnabled, auxVars, now, disc, instance, lastSet>>
    /\ UNCHANGED <<listVars, runVars>>

\* Cache.size: cleanup, then the size of the map
Size ==
    /\ LET swept == cleanup(cache[instance], now, TTL(instance)) IN
       /\ cache' = [cache EXCEPT ![instance] = swept]
       /\ cret' = [NoCret EXCEPT !.op = "size", !.size = Cardinality(DOMAIN swept)]
    /\ UNCHANGED textVars
    /\ UNCHANGED <<markers, unreadable, cacheEnabled, auxVars, now, disc, instance, lastSet>>
    /\ UNCHANGED <<listVars, runVars>>

GetStats ==
    /\ LET r == CacheGetStats(cache[instance], now, TTL(instance)) IN
       /\ cache' = [cache EXCEPT ![instance] = r.map]
       /\ cret' = [NoCret EXCEPT !.op = "stats", !.size = r.size, !.keys = r.keys,
                                 !.totalHits = r.totalHits]
    /\ UNCHANGED textVars
    /\ UNCHANGED <<markers, unreadable, cacheEnabled, auxVars, now, disc, instance, lastSet>>
    /\ UNCHANGED <<listVars, runVars>>

----------------------------------------------------------------------------
(* BrunoCLI.listRequests, as concurrent invocations *)

Procs == {1, 2}

CollectionPaths == {"c1", "c2"}

\* what a collection path is on disk; version stands for the request files
\* found under a valid collection
CollectionStates ==
    {[kind |-> k, version |-> 0] : k \in {"missing", "notDirectory", "notCollection"}}
    \cup {[kind |-> "collection", version |-> v] : v \in Values}

NoLocal == [path |-> "c1", requests |-> 0, outcome |-> "none", fromCache |-> FALSE]

\* the filesystem changes under a collection path
FsChange(c, st) ==
    /\ collections[c] # st
    /\ collections' = [collections EXCEPT ![c] = st]
    /\ UNCHANGED textVars
    /\ UNCHANGED <<discVars, cacheEnabled, auxVars, cacheVars, pc, local, writeOrder, runVars>>

\* listRequests up to the cache lookup: a hit returns the cached list
ListRequestsLookup(p, c) ==
    /\ pc[p] = "idle"
    /\ CanRead("requestList", c)
    /\ LET cached == getCached("requestList", c) IN
       /\ cache' = [cache EXCEPT !["requestList"] = cached.map]
       /\ IF cached.hit
          THEN /\ pc' = [pc EXCEPT ![p] = "done"]
               /\ local' = [local EXCEPT ![p] = [path |-> c, requests |-> cached.data,
                                                 outcome |-> "value", fromCache |-> TRUE]]
          ELSE /\ pc' = [pc EXCEPT ![p] = "scan"]
               /\ local' = [local EXCEPT ![p] = [NoLocal EXCEPT !.path = c]]
    /\ UNCHANGED textVars
    /\ UNCHANGED <<discVars, cacheEnabled, auxVars, now, instance, cret, lastSet,
                   collections, writeOrder, runVars>>

\* fs.stat, hasCollectionFile and findBrunoRequests: the filesystem reads
ListRequestsScan(p) ==
    /\ pc[p] = "scan"
    /\ LET st == collections[local[p].path] IN
       IF st.kind = "collection"
       THEN /\ pc' = [pc EXCEPT ![p] = "store"]
            /\ local' = [local EXCEPT ![p].requests = st.version]
       ELSE /\ pc' = [pc EXCEPT ![p] = "done"]
            /\ local' = [local EXCEPT ![p].outcome = "error"]
    /\ UNCHANGED textVars
    /\ UNCHANGED <<discVars, cacheEnabled, auxVars, cacheVars, collections, writeOrder, runVars>>

\* perfManager.cacheRequestList(collectionPath, requests); return requests
ListRequestsStore(p) ==
    /\ pc[p] = "store"
    /\ cache' = [cache EXCEPT !["requestList"] =
                     cacheStore(@, "requestList", local[p].path, local[p].requests)]
    /\ writeOrder' = IF cacheEnabled THEN Append(writeOrder, p) ELSE writeOrder
    /\ pc' = [pc EXCEPT ![p] = "done"]
    /\ local' = [local EXCEPT ![p].outcome = "value"]
    /\ UNCHANGED textVars
    /\ UNCHANGED <<discVars, cacheEnabled, auxVars, now, instance, cret, lastSet,
                   collections, runVars>>

----------------------------------------------------------------------------
(* JSON values and the result normalizer: BrunoCLI.parseRunResult *)

JNull == [t |-> "null"]
JUndef == [t |-> "undef"]
JBool(b) == [t |-> "bool", b |-> b]
JNum(n) == [t |-> "num", n |-> n]
JStr(str) == [t |-> "str", s |-> str]
JArr(seq) == [t |-> "arr", v |-> seq]
JObj(fields) == [t |-> "obj", f |-> fields]

nullish(v) == v.t \in {"null", "undef"}

\* JavaScript truthiness
truthy(v) ==
    CASE v.t \in {"null", "undef"} -> FALSE
      [] v.t = "bool" -> v.b
      [] v.t = "num" -> v.n # 0
      [] v.t = "str" -> v.s # ""
      [] OTHER -> TRUE

\* a || b
or(a, b) == IF truthy(a) THEN a ELSE b

\* o.name and o?.name on a value that is not null or undefined; o?.name on
\* null or undefined
Field(o, name) ==
    IF o.t = "obj" /\ name \in DOMAIN o.f THEN o.f[name] ELSE JUndef

isArray(v) == v.t = "arr"

\* the mapping of one element of testResults / tests / assertions
mapTestResult(t) ==
    [name |-> or(or(Field(t, "description"), Field(t, "name")), Field(t, "test")),
     passed |-> Field(t, "status") = JStr("pass") \/ Field(t, "passed") = JBool(TRUE),
     error |-> IF Field(t, "status") = JStr("fail")
               THEN or(Field(t, "error"), Field(t, "message")) ELSE JUndef]

\* the mapping of one element of assertionResults
mapAssertionResult(a) ==
    [name |-> or(Field(a, "description"), Field(a, "name")),
     passed |-> Field(a, "status") = JStr("pass") \/ Field(a, "passed") = JBool(TRUE),
     error |-> IF Field(a, "status") = JStr("fail")
               THEN or(Field(a, "error"), Field(a, "message")) ELSE JUndef]

anyNullish(arr) == \E i \in 1..Len(arr.v) : nullish(arr.v[i])

\* the callback of jsonResult.results.map; threw tells a TypeError
mapResult(r) ==
    LET testResults == or(or(Field(r, "testResults"), Field(r, "tests")),
                          Field(r, "assertions"))
        assertionResults == or(Field(r, "assertionResults"), JArr(<<>>))
        tests1 == IF isArray(testResults)
                  THEN [i \in 1..Len(testResults.v) |-> mapTestResult(testResults.v[i])]
                  ELSE <<>>
        tests2 == IF isArray(assertionResults)
                  THEN [i \in 1..Len(assertionResults.v) |->
                            mapAssertionResult(assertionResults.v[i])]
                  ELSE <<>>
        request == Field(r, "request")
        response == Field(r, "response")
    IN [threw |-> \/ nullish(r)
                  \/ (isArray(testResults) /\ anyNullish(testResults))
                  \/ (isArray(assertionResults) /\ anyNullish(assertionResults)),
        name |-> or(or(or(Field(r, "suitename"), Field(r, "name")),
                       Field(Field(r, "test"), "filename")), JStr("Unknown")),
        passed |-> nullish(Field(r, "error")),
        status |-> or(Field(response, "status"), JNum(0)),
        duration |-> or(or(Field(response, "responseTime"), Field(r, "runtime")), JNum(0)),
        error |-> Field(r, "error"),
        request |-> IF truthy(request)
                    THEN JObj([method |-> Field(request, "method"),
                               url |-> Field(request, "url"),
                               headers |-> Field(request, "headers"),
                               body |-> or(Field(request, "body"), Field(request, "data"))])
                    ELSE JUndef,
        response |-> IF truthy(response)
                     THEN JObj([status |-> Field(response, "status"),
                                statusText |-> Field(response, "statusText"),
                                headers |-> Field(response, "headers"),
                                body |-> or(Field(response, "data"), Field(response, "body")),
                                responseTime |-> Field(response, "responseTime")])
                     ELSE JUndef,
        assertions |-> tests1 \o tests2]

\* BrunoCLI.parseItems, one item
mapItem(item) ==
    LET tests == Field(item, "tests")
        request == Field(item, "request")
        response == Field(item, "response")
    IN [threw |-> \/ nullish(item)
                  \/ (truthy(tests) /\ ~isArray(tests))
                  \/ (isArray(tests) /\ anyNullish(tests)),
        name |-> or(Field(item, "name"), JStr("Unknown")),
        passed |-> Field(item, "status") = JStr("passed")
                   \/ Field(item, "passed") # JBool(FALSE),
        status |-> or(Field(response, "status"), JNum(0)),
        duration |-> or(Field(item, "duration"), JNum(0)),
        error |-> JUndef,
        request |-> IF truthy(request)
                    THEN JObj([method |-> Field(request, "method"),
                               url |-> Field(request, "url"),
                               headers |-> Field(request, "headers"),
                               body |-> Field(request, "body")])
                    ELSE JUndef,
        response |-> IF truthy(response)
                     THEN JObj([status |-> Field(response, "status"),
                                statusText |-> Field(response, "statusText"),
                                headers |-> Field(response, "headers"),
                                body |-> or(Field(response, "body"), Field(response, "data")),
                                responseTime |-> or(Field(response, "time"),
                                                    Field(response, "responseTime"))])
                     ELSE JUndef,
        assertions |-> IF isArray(tests)
                       THEN [i \in 1..Len(tests.v) |->
                                [name |-> or(Field(tests.v[i], "name"), Field(tests.v[i], "test")),
                                 passed |-> or(Field(tests.v[i], "passed"),
                                               JBool(Field(tests.v[i], "status") = JStr("passed"))),
                                 error |-> Field(tests.v[i], "error")]]
                       ELSE <<>>]

\* stdout as the executor printed it: nothing, text that holds no JSON, or
\* text that JSON.parse reads as the value json
StdoutEmpty == [kind |-> "empty", json |-> JNull]
StdoutText == [kind |-> "text", json |-> JNull]
StdoutJson(v) == [kind |-> "json", json |-> v]

\* BrunoCLI.tryParseJson
tryParseJson(stdout) ==
    IF stdout.kind = "json" THEN stdout.json ELSE JNull

NoSummary == [present |-> FALSE]
NoResults == [present |-> FALSE]

\* parseRunResult(result, jsonOutput); threw tells that it raised
parseRunResult(result, jsonOutput) ==
    LET j0 == or(jsonOutput, tryParseJson(result.stdout))
        j == IF isArray(j0) /\ Len(j0.v) > 0 THEN j0.v[1] ELSE j0
        sm == Field(j, "summary")
        rs == Field(j, "results")
        items == Field(j, "items")
        useResults == truthy(j) /\ truthy(rs) /\ isArray(rs)
        useItems == truthy(j) /\ ~useResults /\ truthy(items) /\ isArray(items)
        mapped == IF useResults THEN [i \in 1..Len(rs.v) |-> mapResult(rs.v[i])]
                  ELSE IF useItems THEN [i \in 1..Len(items.v) |-> mapItem(items.v[i])]
                  ELSE <<>>
    IN [threw |-> \E i \in 1..Len(mapped) : mapped[i].threw,
        stdout |-> result.stdout,
        stderr |-> result.stderr,
        exitCode |-> or(result.exitCode, JNum(0)),
        summary |-> IF truthy(j) /\ truthy(sm)
                    THEN [present |-> TRUE,
                          totalRequests |-> or(or(Field(sm, "totalRequests"),
                                                  Field(sm, "total")), JNum(0)),
                          passedRequests |-> or(or(Field(sm, "passedRequests"),
                                                   Field(sm, "passed")), JNum(0)),
                          failedRequests |-> or(or(Field(sm, "failedRequests"),
                                                   Field(sm, "failed")), JNum(0)),
                          totalDuration |-> or(or(Field(sm, "totalDuration"),
                                                  Field(sm, "duration")), JNum(0))]
                    ELSE NoSummary,
        results |-> IF useResults \/ useItems
                    THEN [present |-> TRUE, list |-> mapped]
                    ELSE NoResults]

----------------------------------------------------------------------------
(* Text.  A string is a sequence of tokens; a token is one character, or a  *)
(* word of the .bru syntax (meta, get, headers, url, ...) taken as a unit.  *)

NL == "\n"
SP == " "

IsSpace(c) == c \in {SP, NL}

Digits == {"0", "1", "2", "3", "4", "5", "6", "7", "8", "9"}

FirstIn(S) == IF S = {} THEN 0 ELSE CHOOSE x \in S : \A y \in S : x <= y

LastIn(S) == IF S = {} THEN 0 ELSE CHOOSE x \in S : \A y \in S : x >= y

\* String.prototype.trim
trim(s) ==
    LET keep == {i \in 1..Len(s) : ~IsSpace(s[i])} IN
    IF keep = {} THEN <<>> ELSE SubSeq(s, FirstIn(keep), LastIn(keep))

\* String.prototype.indexOf for a one-character needle, counted from 1 (0: absent)
indexOf(s, c) == FirstIn({i \in 1..Len(s) : s[i] = c})

\* s.split('\n')
RECURSIVE split(_)
split(s) ==
    LET n == indexOf(s, NL) IN
    IF n = 0 THEN <<s>>
    ELSE <<SubSeq(s, 1, n - 1)>> \o split(SubSeq(s, n + 1, Len(s)))

\* pat occurs in s at position i
startsWithAt(s, i, pat) ==
    i + Len(pat) - 1 <= Len(s) /\ SubSeq(s, i, i + Len(pat) - 1) = pat

\* String.prototype.includes
includes(s, pat) == \E i \in 1..(Len(s) + 1) : startsWithAt(s, i, pat)

lower(c) ==
    CASE c = "G" -> "g"
      [] c = "U" -> "u"
      [] c = "A" -> "a"
      [] c = "B" -> "b"
      [] OTHER -> c

\* String.prototype.toLowerCase
toLowerCase(s) == [i \in 1..Len(s) |-> lower(s[i])]

\* String.prototype.toUpperCase on the name of a method block
toUpperCase(method) ==
    CASE method = "get" -> "GET"
      [] method = "post" -> "POST"
      [] method = "put" -> "PUT"
      [] method = "patch" -> "PATCH"
      [] method = "delete" -> "DELETE"
      [] method = "head" -> "HEAD"
      [] method = "options" -> "OPTIONS"
      [] OTHER -> method

\* where \s* stops when it starts at i: the first position from i on that
\* holds no white space, Len(s) + 1 when there is none
skipSpaces(s, i) ==
    FirstIn({j \in i..(Len(s) + 1) : j = Len(s) + 1 \/ ~IsSpace(s[j])})

\* the last position of the line that holds position i
lineEnd(s, i) ==
    LET n == FirstIn({k \in i..Len(s) : s[k] = NL}) IN
    IF n = 0 THEN Len(s) ELSE n - 1

----------------------------------------------------------------------------
(* Request lookup (bruno-cli.ts) *)

MethodBlocks == <<"get", "post", "put", "patch", "delete", "head", "options">>

\* line.match(/^\s*key:\s*(.+)/) on one line, the capture trimmed
matchLineField(line, key) ==
    LET k == skipSpaces(line, 1) IN
    IF k + 2 <= Len(line) /\ line[k] = key /\ line[k + 1] = ":"
    THEN [found |-> TRUE, value |-> trim(SubSeq(line, k + 2, Len(line)))]
    ELSE [found |-> FALSE, value |-> <<>>]

\* line.match(/^(get|post|put|delete|patch|head|options)\s*\{/i)
matchMethodLine(line) ==
    LET j == skipSpaces(line, 2) IN
    /\ Len(line) >= 2
    /\ \E m \in 1..Len(MethodBlocks) : lower(line[1]) = MethodBlocks[m]
    /\ j <= Len(line)
    /\ line[j] = "{"

\* the url looked up in the four lines that follow lines.indexOf(line)
RECURSIVE urlAfter(_, _, _)
urlAfter(lines, i, last) ==
    IF i > last THEN [found |-> FALSE, value |-> <<>>]
    ELSE LET urlMatch == matchLineField(lines[i], "url") IN
         IF urlMatch.found THEN urlMatch ELSE urlAfter(lines, i + 1, last)

NoInfo == [hasName |-> FALSE, name |-> <<>>, hasMethod |-> FALSE, method |-> "",
           hasUrl |-> FALSE, url |-> <<>>]

\* the for loop of parseBrunoFile over the lines, from line i on
RECURSIVE parseLines(_, _, _, _)
parseLines(lines, i, inMeta, info) ==
    IF i > Len(lines) THEN info
    ELSE LET line == lines[i] IN
         IF trim(line) = <<"meta", SP, "{">>
         THEN parseLines(lines, i + 1, TRUE, info)
         ELSE IF inMeta /\ trim(line) = <<"}">>
         THEN parseLines(lines, i + 1, FALSE, info)
         ELSE LET nameMatch == matchLineField(line, "name")
                  info1 == IF inMeta /\ nameMatch.found
                           THEN [info EXCEPT !.hasName = TRUE, !.name = nameMatch.value]
                           ELSE info
                  urlIndex == FirstIn({n \in 1..Len(lines) : lines[n] = line})
                  urlMatch == urlAfter(lines, urlIndex + 1,
                                       Min(urlIndex + 4, Len(lines)))
                  info2 == IF matchMethodLine(line)
                           THEN [info1 EXCEPT
                                   !.hasMethod = TRUE,
                                   !.method = toUpperCase(lower(line[1])),
                                   !.hasUrl = @ \/ urlMatch.found,
                                   !.url = IF urlMatch.found THEN urlMatch.value ELSE @]
                           ELSE info1
              IN parseLines(lines, i + 1, inMeta, info2)

\* parseBrunoFile: the basic information read from the content of a file
parseBrunoFile(content) == parseLines(split(content), 1, FALSE, NoInfo)

\* the value findRequestFile returns when no request matches
NoFile == 0

\* findBrunoRequests over a collection whose .bru files lie in its root; the
\* path of a request is the position of its file in the listing
findBrunoRequests(entries) ==
    LET kept == SelectSeq([i \in 1..Len(entries) |-> i],
                          LAMBDA i : entries[i].name # <<"collection">>)
    IN [n \in 1..Len(kept) |->
          LET requestInfo == parseBrunoFile(entries[kept[n]].text) IN
          [name |-> IF requestInfo.hasName THEN requestInfo.name
                    ELSE entries[kept[n]].name,
           path |-> kept[n],
           hasMethod |-> requestInfo.hasMethod, method |-> requestInfo.method,
           hasUrl |-> requestInfo.hasUrl, url |-> requestInfo.url]]

\* Array.prototype.find over the names: the first request whose name
\* satisfies test, 0 when there is none
find(requests, test(_)) ==
    FirstIn({n \in 1..Len(requests) : test(requests[n].name)})

\* findRequestFile: exact match, then case-insensitive match, then partial match
findRequestFile(entries, requestName) ==
    LET requests == findBrunoRequests(entries)
        exact == find(requests, LAMBDA name : name = requestName)
        insensitive == find(requests,
                            LAMBDA name : toLowerCase(name) = toLowerCase(requestName))
        partial == find(requests, LAMBDA name : includes(name, requestName))
        request == IF exact # 0 THEN exact
                   ELSE IF insensitive # 0 THEN insensitive
                   ELSE partial
    IN IF request = 0 THEN NoFile ELSE requests[request].path

----------------------------------------------------------------------------
(* Request details and environment variables (bruno-cli.ts) *)

BodyTypes == <<"json", "text", "xml", "formUrlEncoded", "multipartForm", "graphql",
               "sparql", "none">>

Quotes == {"'", "\""}

NoMatch == [found |-> FALSE, text |-> <<>>]

\* the position of the { that label\s*\{ matches when label starts at i, 0 if
\* it does not match there
openBrace(s, i, label) ==
    IF ~startsWithAt(s, i, label) THEN 0
    ELSE LET j == skipSpaces(s, i + Len(label)) IN
         IF j <= Len(s) /\ s[j] = "{" THEN j ELSE 0

\* where ([\s\S]*?)\n\} ends after the { at j: the first newline that a }
\* follows at once, 0 if there is none
lazyEnd(s, j) == FirstIn({k \in (j + 1)..(Len(s) - 1) : s[k] = NL /\ s[k + 1] = "}"})

\* content.match(/label\s*\{([\s\S]*?)\n\}/s): the capture of the leftmost match
matchBlock(s, label) ==
    LET i == FirstIn({n \in 1..Len(s) :
                        openBrace(s, n, label) # 0
                        /\ lazyEnd(s, openBrace(s, n, label)) # 0})
        j == openBrace(s, i, label)
    IN IF i = 0 THEN NoMatch
       ELSE [found |-> TRUE, text |-> SubSeq(s, j + 1, lazyEnd(s, j) - 1)]

\* where ([^}]*)\} ends after the { at j: the first }, 0 if there is none
firstClose(s, j) == FirstIn({k \in (j + 1)..Len(s) : s[k] = "}"})

\* content.match(/label\s*\{([^}]*)\}/s): the capture of the leftmost match
matchFlatBlock(s, label) ==
    LET i == FirstIn({n \in 1..Len(s) :
                        openBrace(s, n, label) # 0
                        /\ firstClose(s, openBrace(s, n, label)) # 0})
        j == openBrace(s, i, label)
    IN IF i = 0 THEN NoMatch
       ELSE [found |-> TRUE, text |-> SubSeq(s, j + 1, firstClose(s, j) - 1)]

\* content.match(/tests\s*\{([^}]*(?:\{[^}]*\}[^}]*)*)\}/s): the greedy [^}]*
\* runs to the first }, which the closing \} then matches with the group
\* taken zero times
matchTestsBlock(s) == matchFlatBlock(s, <<"tests">>)

\* content.match(/key:\s*(.+)/), the capture trimmed
matchField(s, key) ==
    LET hits == {i \in 1..(Len(s) - 1) :
                   /\ s[i] = key
                   /\ s[i + 1] = ":"
                   /\ \E p \in (i + 2)..Len(s) :
                         s[p] # NL /\ \A q \in (i + 2)..(p - 1) : IsSpace(s[q])}
        e == skipSpaces(s, FirstIn(hits) + 2)
    IN IF hits = {} THEN [found |-> FALSE, value |-> <<>>]
       ELSE [found |-> TRUE,
             value |-> IF e > Len(s) THEN <<>> ELSE trim(SubSeq(s, e, lineEnd(s, e)))]

digitValue(c) ==
    CASE c = "0" -> 0 [] c = "1" -> 1 [] c = "2" -> 2 [] c = "3" -> 3 [] c = "4" -> 4
      [] c = "5" -> 5 [] c = "6" -> 6 [] c = "7" -> 7 [] c = "8" -> 8 [] c = "9" -> 9

\* parseInt of a string of digits
RECURSIVE parseInt(_)
parseInt(s) ==
    IF s = <<>> THEN 0
    ELSE 10 * parseInt(SubSeq(s, 1, Len(s) - 1)) + digitValue(s[Len(s)])

\* content.match(/seq:\s*(\d+)/) and parseInt of the capture
matchSeq(s) ==
    LET hits == {i \in 1..(Len(s) - 1) :
                   /\ s[i] = "seq"
                   /\ s[i + 1] = ":"
                   /\ skipSpaces(s, i + 2) <= Len(s)
                   /\ s[skipSpaces(s, i + 2)] \in Digits}
        e == skipSpaces(s, FirstIn(hits) + 2)
        stop == FirstIn({k \in e..(Len(s) + 1) : k = Len(s) + 1 \/ s[k] \notin Digits})
    IN IF hits = {} THEN [found |-> FALSE, value |-> 0]
       ELSE [found |-> TRUE, value |-> parseInt(SubSeq(s, e, stop - 1))]

\* the for loop over methodBlocks, from method m on: the first method whose
\* block regex matches
RECURSIVE matchMethod(_, _)
matchMethod(s, m) ==
    IF m > Len(MethodBlocks) THEN [found |-> FALSE, method |-> "", text |-> <<>>]
    ELSE LET methodMatch == matchBlock(s, <<MethodBlocks[m]>>) IN
         IF methodMatch.found
         THEN [found |-> TRUE, method |-> MethodBlocks[m], text |-> methodMatch.text]
         ELSE matchMethod(s, m + 1)

\* the for loop over headerLines, from line i on
RECURSIVE parseHeaderLines(_, _, _)
parseHeaderLines(headerLines, i, headers) ==
    IF i > Len(headerLines) THEN headers
    ELSE LET line == headerLines[i]
             colonIndex == indexOf(line, ":")
         IN IF colonIndex > 1
            THEN parseHeaderLines(headerLines, i + 1,
                     MapSet(headers, trim(SubSeq(line, 1, colonIndex - 1)),
                            trim(SubSeq(line, colonIndex + 1, Len(line)))))
            ELSE parseHeaderLines(headerLines, i + 1, headers)

\* headersContent.split('\n').filter(line => line.trim()) and the loop over it
parseHeaders(headersContent) ==
    parseHeaderLines(SelectSeq(split(headersContent), LAMBDA line : trim(line) # <<>>),
                     1, EmptyMap)

\* content.match(/body:(json|...|none)\s*\{/): the body type of the leftmost match
matchBodyType(s) ==
    LET i == FirstIn({n \in 1..(Len(s) - 2) :
                        /\ s[n] = "body"
                        /\ s[n + 1] = ":"
                        /\ \E t \in 1..Len(BodyTypes) : s[n + 2] = BodyTypes[t]
                        /\ openBrace(s, n, SubSeq(s, n, n + 2)) # 0})
    IN IF i = 0 THEN [found |-> FALSE, type |-> ""]
       ELSE [found |-> TRUE, type |-> s[i + 2]]

\* one match of /test\s*\(\s*["']([^"']+)["']/ that starts at i: the position
\* of its closing quote, 0 if it does not match there
testMatchEnd(s, i) ==
    IF i > Len(s) \/ s[i] # "test" THEN 0
    ELSE LET j == skipSpaces(s, i + 1) IN
         IF j > Len(s) \/ s[j] # "(" THEN 0
         ELSE LET k == skipSpaces(s, j + 1) IN
              IF k > Len(s) \/ s[k] \notin Quotes THEN 0
              ELSE LET close == FirstIn({q \in (k + 1)..Len(s) : s[q] \in Quotes}) IN
                   IF close > k + 1 THEN close ELSE 0

\* the while loop over testRegex.exec(testsContent), from lastIndex on
RECURSIVE parseTests(_, _, _)
parseTests(s, lastIndex, tests) ==
    LET i == FirstIn({n \in lastIndex..Len(s) : testMatchEnd(s, n) # 0}) IN
    IF i = 0 THEN tests
    ELSE LET close == testMatchEnd(s, i)
             open == LastIn({q \in i..(close - 1) : s[q] \in Quotes})
         IN parseTests(s, close + 1, Append(tests, SubSeq(s, open + 1, close - 1)))

NoBody == [present |-> FALSE, type |-> "", content |-> <<>>]

NoSeq == [present |-> FALSE, value |-> 0]

\* the details object and the captures of the block regexes, computed from
\* the content of the request file
parseDetails(requestName, content) ==
    LET metaMatch == matchBlock(content, <<"meta">>)
        nameMatch == matchField(metaMatch.text, "name")
        typeMatch == matchField(metaMatch.text, "type")
        seqMatch == matchSeq(metaMatch.text)
        methodMatch == matchMethod(content, 1)
        urlMatch == matchField(methodMatch.text, "url")
        authMatch == matchField(methodMatch.text, "auth")
        headersMatch == matchBlock(content, <<"headers">>)
        bodyTypeMatch == matchBodyType(content)
        bodyMatch == IF bodyTypeMatch.found
                     THEN matchBlock(content, <<"body", ":", bodyTypeMatch.type>>)
                     ELSE NoMatch
        testsMatch == matchTestsBlock(content)
    IN [name |-> IF metaMatch.found /\ nameMatch.found THEN nameMatch.value
                 ELSE requestName,
        method |-> IF methodMatch.found THEN toUpperCase(methodMatch.method) ELSE "GET",
        url |-> IF methodMatch.found /\ urlMatch.found THEN urlMatch.value ELSE <<>>,
        headers |-> IF headersMatch.found THEN parseHeaders(headersMatch.text)
                    ELSE EmptyMap,
        body |-> IF bodyMatch.found
                 THEN [present |-> TRUE, type |-> bodyTypeMatch.type,
                       content |-> trim(bodyMatch.text)]
                 ELSE NoBody,
        auth |-> IF methodMatch.found /\ authMatch.found THEN authMatch.value
                 ELSE <<"none">>,
        tests |-> IF testsMatch.found THEN parseTests(testsMatch.text, 1, <<>>)
                  ELSE <<>>,
        metadata |-> [type |-> IF metaMatch.found /\ typeMatch.found
                               THEN typeMatch.value ELSE <<"http">>,
                      seq |-> IF metaMatch.found /\ seqMatch.found
                              THEN [present |-> TRUE, value |-> seqMatch.value]
                              ELSE NoSeq],
        blocks |-> [meta |-> metaMatch,
                    method |-> [found |-> methodMatch.found, text |-> methodMatch.text],
                    headers |-> headersMatch,
                    body |-> bodyMatch,
                    tests |-> testsMatch]]

IsIdentStart(c) == ~IsSpace(c) /\ c \notin Digits \cup Quotes \cup {":", "{", "}", "(", ")", ","}

IsIdentChar(c) == IsIdentStart(c) \/ c \in Digits

\* one match of /^\s*([a-zA-Z_][a-zA-Z0-9_]*)\s*:\s*(.+?)\s*$/m that starts at
\* the line start i
varMatchAt(s, i) ==
    LET k == skipSpaces(s, i)
        keyEnd == FirstIn({n \in k..(Len(s) + 1) : n = Len(s) + 1 \/ ~IsIdentChar(s[n])})
        colon == skipSpaces(s, keyEnd)
        \* the greedy \s* after the colon gives back until (.+?) has a character
        v == LastIn({p \in (colon + 1)..Len(s) :
                        s[p] # NL /\ \A q \in (colon + 1)..(p - 1) : IsSpace(s[q])})
        \* the lazy (.+?) ends at the last character of the line that is not
        \* followed by anything but white space
        last == FirstIn({p \in v..lineEnd(s, v) :
                           \A q \in (p + 1)..lineEnd(s, v) : IsSpace(s[q])})
    IN IF /\ k <= Len(s) /\ IsIdentStart(s[k])
          /\ colon <= Len(s) /\ s[colon] = ":"
          /\ v # 0
       THEN [found |-> TRUE, key |-> SubSeq(s, k, keyEnd - 1),
             value |-> SubSeq(s, v, last), end |-> last]
       ELSE [found |-> FALSE, key |-> <<>>, value |-> <<>>, end |-> 0]

\* the while loop over varRegex.exec(varsContent), from lastIndex on
RECURSIVE parseVariables(_, _, _)
parseVariables(s, lastIndex, variables) ==
    LET i == FirstIn({n \in lastIndex..Len(s) :
                        (n = 1 \/ s[n - 1] = NL) /\ varMatchAt(s, n).found}) IN
    IF i = 0 THEN variables
    ELSE LET m == varMatchAt(s, i) IN
         parseVariables(s, m.end + 1, MapSet(variables, m.key, m.value))

\* parseEnvironmentVariables: the variables object and the capture of the
\* vars block regex
parseEnvironmentVariables(content) ==
    LET varsMatch == matchFlatBlock(content, <<"vars">>) IN
    [variables |-> IF varsMatch.found THEN parseVariables(varsMatch.text, 1, EmptyMap)
                   ELSE EmptyMap,
     blocks |-> [vars |-> varsMatch]]

----------------------------------------------------------------------------
(* The executor and the calls that invoke it *)

\* what the external process does once asked to start
Behaviours == {"exitZero", "exitNonZero", "hang", "missing"}

\* what stderr holds: nothing, a 'command not found' / ENOENT text, the
\* 'You can run only at the root of a collection' text, or other text
StderrKinds == {"empty", "notFound", "notRoot", "other"}

NoTimeout == 0

\* execa(command, args, options) with options.reject and options.timeout:
\* how the promise settles and, when it resolves, with what result
execa(behaviour, reject, timeout, stdout, stderr) ==
    LET result ==
            CASE behaviour = "exitZero" ->
                     [exitCode |-> JNum(0), failed |-> FALSE, timedOut |-> FALSE,
                      stdout |-> stdout, stderr |-> stderr, message |-> "none"]
              [] behaviour = "exitNonZero" ->
                     [exitCode |-> JNum(1), failed |-> TRUE, timedOut |-> FALSE,
                      stdout |-> stdout, stderr |-> stderr,
                      message |-> "Command failed with exit code 1"]
              [] behaviour = "hang" ->
                     [exitCode |-> JUndef, failed |-> TRUE, timedOut |-> TRUE,
                      stdout |-> stdout, stderr |-> stderr,
                      message |-> "Command timed out"]
              [] OTHER ->
                     [exitCode |-> JUndef, failed |-> TRUE, timedOut |-> FALSE,
                      stdout |-> StdoutEmpty, stderr |-> "empty",
                      message |-> "Command failed with ENOENT"]
    IN IF behaviour = "hang" /\ timeout = NoTimeout
       THEN [settles |-> "never", result |-> result]
       ELSE IF result.failed /\ reject
            THEN [settles |-> "rejected", result |-> result]
            ELSE [settles |-> "resolved", result |-> result]

\* BrunoCLI.handleError on an execa result or error: the message of the Error
handleError(error) ==
    CASE error.stderr = "notFound" -> "Bruno CLI not found"
      [] error.stderr = "notRoot" -> "Invalid collection directory"
      [] error.stderr = "other" -> "Bruno CLI error: stderr"
      [] error.message = "Command failed with ENOENT" ->
             "Bruno CLI failed: Command failed with ENOENT"
      [] error.message = "Command timed out" -> "Bruno CLI failed: Command timed out"
      [] OTHER -> "Bruno CLI failed: Command failed with exit code 1"

\* the temporary artifact after the executor ran: not written, written with
\* text JSON.parse rejects, or written with the JSON value json
ArtifactAbsent == [state |-> "absent", json |-> JNull]
ArtifactUnparsable == [state |-> "unparsable", json |-> JNull]
ArtifactJson(v) == [state |-> "json", json |-> v]

\* fs.readFile and JSON.parse of the artifact inside their try / catch
readArtifact(artifact) ==
    IF artifact.state = "json" THEN artifact.json ELSE JNull

SummaryFull ==
    JObj([totalRequests |-> JNum(2), passedRequests |-> JNum(1),
          failedRequests |-> JNum(1), totalDuration |-> JNum(7)])

ResultPassed ==
    JObj([suitename |-> JStr("r1"), error |-> JNull,
          response |-> JObj([status |-> JNum(200), responseTime |-> JNum(3)])])

ResultFailed == JObj([name |-> JStr("r2"), error |-> JStr("boom")])

PayloadRun == JObj([summary |-> SummaryFull, results |-> JArr(<<ResultPassed, ResultFailed>>)])

\* JSON values the executor may write; the last makes the normalizer raise
Payloads ==
    {PayloadRun, JArr(<<PayloadRun>>), JObj([items |-> JArr(<<ResultFailed>>)]),
     JObj([results |-> JArr(<<JNull>>)])}

Artifacts == {ArtifactAbsent, ArtifactUnparsable} \cup {ArtifactJson(v) : v \in Payloads}

Stdouts == {StdoutEmpty, StdoutText, StdoutJson(PayloadRun)}

NoValue == [threw |-> FALSE]

NoRun == [op |-> "none", behaviour |-> "exitZero", artifact |-> ArtifactAbsent,
          invoked |-> FALSE, timeout |-> NoTimeout, kind |-> "none", value |-> NoValue, error |-> "none",
          unlinks |-> 0, requestName |-> <<>>, file |-> NoFile]

\* afterExeca with a catch block that does not delete the artifact
afterExecaKeeping(r, artifact, throwsOnFailure) ==
    IF r.settles = "never"
    THEN [kind |-> "blocked", value |-> NoValue, error |-> "none", unlinks |-> 0]
    ELSE IF r.settles = "rejected"
              \/ (throwsOnFailure /\ (r.result.exitCode # JNum(0) \/ r.result.failed))
    THEN [kind |-> "error", value |-> NoValue, error |-> handleError(r.result),
          unlinks |-> 0]
    ELSE LET parsed == parseRunResult(r.result, readArtifact(artifact)) IN
         IF parsed.threw
         THEN [kind |-> "error", value |-> NoValue, error |-> "typeError", unlinks |-> 1]
         ELSE [kind |-> "value", value |-> parsed, error |-> "none", unlinks |-> 1]

\* what the try / catch of runRequest and runCollection hands back once the
\* executor settled with r, given whether a failed result is thrown; unlinks
\* counts the calls of fs.unlink on the artifact
afterExeca(r, artifact, throwsOnFailure) ==
    IF r.settles = "never"
    THEN [kind |-> "blocked", value |-> NoValue, error |-> "none", unlinks |-> 0]
    ELSE IF r.settles = "rejected"
              \/ (throwsOnFailure /\ (r.result.exitCode # JNum(0) \/ r.result.failed))
    THEN [kind |-> "error", value |-> NoValue, error |-> handleError(r.result),
          unlinks |-> 1]
    ELSE LET parsed == parseRunResult(r.result, readArtifact(artifact)) IN
         IF parsed.threw
         THEN [kind |-> "error", value |-> NoValue, error |-> "typeError", unlinks |-> 2]
         ELSE [kind |-> "value", value |-> parsed, error |-> "none", unlinks |-> 1]

\* BrunoCLI.isAvailable: execa(this.brunoCommand, ['--version'])
IsAvailable(behaviour) ==
    /\ LET r == execa(behaviour, TRUE, NoTimeout, StdoutText, "empty") IN
       /\ run' = [NoRun EXCEPT !.op = "isAvailable", !.behaviour = behaviour,
                               !.invoked = TRUE, !.timeout = NoTimeout,
                               !.kind = IF r.settles = "never" THEN "blocked" ELSE "value",
                               !.value = [threw |-> FALSE,
                                          available |-> r.settles = "resolved"]]
    /\ UNCHANGED textVars
    /\ UNCHANGED <<discVars, cacheEnabled, auxVars, cacheVars, listVars, timeouts>>

\* BrunoCLI.runRequest
RunRequest(requestName, behaviour, artifact, stdout, stderr) ==
    /\ \E requestFile \in {findRequestFile(files, requestName)} :
       IF requestFile = NoFile
       THEN run' = [NoRun EXCEPT !.op = "runRequest", !.kind = "error",
                                 !.error = "requestNotFound",
                                 !.requestName = requestName]
       ELSE LET r == execa(behaviour, FALSE, timeouts.request, stdout, stderr)
                o == afterExeca(r, artifact, TRUE)
            IN run' = [op |-> "runRequest", behaviour |-> behaviour,
                       artifact |-> artifact, invoked |-> TRUE,
                       timeout |-> timeouts.request, kind |-> o.kind,
                       value |-> o.value, error |-> o.error, unlinks |-> o.unlinks,
                       requestName |-> requestName, file |-> requestFile]
    /\ UNCHANGED textVars
    /\ UNCHANGED <<discVars, cacheEnabled, auxVars, cacheVars, listVars, timeouts>>

\* BrunoCLI.runCollection
RunCollection(behaviour, artifact, stdout, stderr) ==
    /\ LET r == execa(behaviour, FALSE, timeouts.collection, stdout, stderr)
           o == afterExeca(r, artifact, FALSE)
       IN run' = [op |-> "runCollection", behaviour |-> behaviour,
                  artifact |-> artifact, invoked |-> TRUE,
                  timeout |-> timeouts.collection, kind |-> o.kind,
                  value |-> o.value, error |-> o.error, unlinks |-> o.unlinks,
                  requestName |-> <<>>, file |-> NoFile]
    /\ UNCHANGED textVars
    /\ UNCHANGED <<discVars, cacheEnabled, auxVars, cacheVars, listVars, timeouts>>

----------------------------------------------------------------------------
(* The normalizer on its own *)

\* JSON values the normalizer is handed: objects with and without summary
\* and results, arrays of several lengths, values that are not objects
NormPayloads ==
    {PayloadRun,
     JObj([results |-> JArr(<<ResultPassed, ResultFailed>>)]),
     JObj([summary |-> JObj([passed |-> JNum(1), failed |-> JNum(1)]),
           results |-> JArr(<<ResultPassed, ResultFailed>>)]),
     JObj([summary |-> JObj([totalRequests |-> JNum(0), total |-> JNum(5),
                             passedRequests |-> JNum(3), passed |-> JNum(4)])]),
     JObj([summary |-> JObj([total |-> JNum(5), duration |-> JNum(9)])]),
     JObj([items |-> JArr(<<ResultFailed>>)]),
     JObj([results |-> JArr(<<JNull>>)]),
     JObj([results |-> JArr(<<JNum(1)>>)]),
     JObj([items |-> JArr(<<JNull>>)]),
     JObj([other |-> JNum(1)]),
     JNum(5),
     JStr("text"),
     JArr(<<>>),
     JArr(<<PayloadRun>>),
     JArr(<<PayloadRun, JObj([other |-> JNum(1)])>>),
     JArr(<<JObj([results |-> JArr(<<ResultFailed>>)]), PayloadRun>>)}

\* what JSON.parse of the artifact gave; null when there is no artifact
JsonOutputs == {JNull} \cup NormPayloads

NormStdouts == {StdoutEmpty, StdoutText} \cup {StdoutJson(v) : v \in NormPayloads}

ExitCodes == {JNum(0), JNum(1)}

\* the execa results the normalizer is handed
NormResults ==
    {[exitCode |-> exitCode, failed |-> exitCode # JNum(0), timedOut |-> FALSE,
      stdout |-> stdout, stderr |-> stderr, message |-> "none"] :
        exitCode \in ExitCodes, stdout \in NormStdouts, stderr \in {"empty", "other"}}

\* BrunoCLI.parseRunResult on the execa result and the parsed artifact that
\* norm holds
ParseRunResult ==
    /\ norm' = [norm EXCEPT !.op = "parseRunResult",
                            !.value = parseRunResult(norm.result, norm.jsonOutput)]
    /\ UNCHANGED <<files, envContent, details>>
    /\ UNCHANGED <<discVars, cacheEnabled, auxVars, cacheVars, listVars, runVars>>

----------------------------------------------------------------------------
(* The calls that parse a file *)

NoDetails == [op |-> "none", requestName |-> <<>>, kind |-> "none", error |-> "none",
              file |-> NoFile, value |-> NoValue]

\* BrunoCLI.getRequestDetails
GetRequestDetails(requestName) ==
    /\ \E requestFile \in {findRequestFile(files, requestName)} :
       details' = IF requestFile = NoFile
                  THEN [NoDetails EXCEPT !.op = "getRequestDetails",
                                         !.requestName = requestName,
                                         !.kind = "error",
                                         !.error = "requestNotFound"]
                  ELSE [op |-> "getRequestDetails", requestName |-> requestName,
                        kind |-> "value", error |-> "none", file |-> requestFile,
                        value |-> parseDetails(requestName, files[requestFile].text)]
    /\ UNCHANGED <<files, envContent, norm>>
    /\ UNCHANGED <<discVars, cacheEnabled, auxVars, cacheVars, listVars, runVars>>

\* BrunoCLI.listRequests on a collection whose request list is not cached
ListRequestsOfFiles ==
    /\ \E requests \in {findBrunoRequests(files)} : listing' = requests
    /\ UNCHANGED <<files, envContent, details, norm>>
    /\ UNCHANGED <<discVars, cacheEnabled, cacheVars, listVars, runVars>>
    /\ UNCHANGED <<config, tool, logs, metrics>>

\* BrunoCLI.parseEnvironmentVariables on the content of the environment file
ParseEnvironmentVariables ==
    /\ details' = [NoDetails EXCEPT !.op = "parseEnvironmentVariables",
                                    !.kind = "value",
                                    !.value = parseEnvironmentVariables(envContent)]
    /\ UNCHANGED <<files, envContent, norm>>
    /\ UNCHANGED <<discVars, cacheEnabled, auxVars, cacheVars, listVars, runVars>>

----------------------------------------------------------------------------
(* File contents *)

\* "meta {" on its own line, a name entry and a seq entry, "}" on its own line
MetaBlock(name) ==
    <<"meta", SP, "{", NL, SP, SP, "name", ":", SP>> \o name
    \o <<NL, SP, SP, "seq", ":", SP, "1", "2", NL, "}", NL>>

GetBlock == <<"get", SP, "{", NL, SP, SP, "url", ":", SP, "U", NL,
              SP, SP, "auth", ":", SP, "b", NL, "}", NL>>

PostBlock == <<"post", SP, "{", NL, SP, SP, "url", ":", SP, "U", NL, "}", NL>>

\* braces on their own lines
HeadersOwnLines == <<"headers", SP, "{", NL, SP, SP, "A", ":", SP, "1", NL,
                     SP, SP, "B", ":", SP, "2", NL, "}", NL>>

\* braces on their own lines, blank lines and spaces around the entries
HeadersSpaced == <<"headers", SP, SP, "{", SP, NL, NL, SP, "A", ":", SP, "1", SP, NL,
                   NL, "B", ":", SP, "2", NL, SP, NL, "}", NL>>

\* braces on the lines of the entries
HeadersSameLine == <<"headers", SP, "{", SP, "A", ":", SP, "1", NL,
                     "B", ":", SP, "2", SP, "}", NL>>

\* the closing brace is missing
HeadersUnterminated == <<"headers", SP, "{", NL, SP, SP, "A", ":", SP, "1", NL>>

\* a JSON object whose braces are indented
BodyIndented == <<"body", ":", "json", SP, "{", NL, SP, SP, "{", NL,
                  SP, SP, SP, SP, "a", ":", SP, "1", NL, SP, SP, "}", NL, "}", NL>>

\* a JSON object whose braces start their lines
BodyFlush == <<"body", ":", "json", SP, "{", NL, "{", NL, "a", ":", SP, "1", NL,
               "}", NL, "}", NL>>

\* two tests whose callbacks have braces of their own
TestsBlock == <<"tests", SP, "{", NL,
                SP, SP, "test", "(", "'", "t", "'", ",", SP, "{", NL,
                SP, SP, SP, SP, "x", NL, SP, SP, "}", ")", NL,
                SP, SP, "test", "(", "\"", "u", "\"", ",", SP, "{", SP, "}", ")", NL,
                "}", NL>>

MetaVariants == {<<>>, MetaBlock(<<"N">>)}
MethodVariants == {<<>>, GetBlock, PostBlock}
HeadersVariants == {<<>>, HeadersOwnLines, HeadersSpaced, HeadersSameLine,
                    HeadersUnterminated}
BodyVariants == {<<>>, BodyIndented, BodyFlush}
TestsVariants == {<<>>, TestsBlock}

\* request files: the blocks in the order meta, method, headers, body, tests
RequestTexts ==
    {me \o mt \o h \o b \o t :
        me \in MetaVariants, mt \in MethodVariants, h \in HeadersVariants,
        b \in BodyVariants, t \in TestsVariants}

PutBlock == <<"put", SP, "{", NL, SP, SP, "url", ":", SP, "V", NL, "}", NL>>

\* a method block that holds no url, and a later block that holds one
PostAuthOnly == <<"post", SP, "{", NL, SP, SP, "auth", ":", SP, "b", NL, "}", NL,
                  "headers", SP, "{", NL, SP, SP, "url", ":", SP, "V", NL, "}", NL>>

\* a method block whose braces are on the line of its entry
PostSameLine == <<"post", SP, "{", SP, "url", ":", SP, "U", SP, "}", NL>>

\* request files that differ in their method blocks: two method blocks in
\* either order, a block without a url, a block on one line
MethodTexts ==
    {PutBlock \o GetBlock, GetBlock \o PutBlock, PutBlock \o PostBlock,
     PostAuthOnly, PostSameLine, PostSameLine \o HeadersOwnLines}

EnvTexts ==
    {<<>>,
     <<"vars", SP, "{", NL, SP, SP, "a", ":", SP, "1", NL, SP, SP, "b", ":", SP, "2", NL,
       "}", NL>>,
     <<"vars", SP, "{", NL, SP, SP, "a", ":", SP, "{", "{", "x", "}", "}", NL,
       SP, SP, "b", ":", SP, "2", NL, "}", NL>>,
     <<"vars", SP, "{", SP, "a", ":", SP, "1", SP, "}", NL>>,
     <<"vars", SP, "{", NL, SP, SP, "a", ":", SP, "1", NL>>}

File(name, text) == [name |-> name, text |-> text]

\* the collection of the specifications that do not parse: one request named R
DefaultFiles == <<File(<<"R">>, GetBlock)>>

\* the files a collection is made of in the lookup specification
LookupFiles ==
    {File(<<"G", "e", "t", "U">>, GetBlock),
     File(<<"g", "e", "t">>, PostBlock),
     File(<<"f">>, MetaBlock(<<"G", "e", "t", "A">>) \o GetBlock),
     File(<<"collection">>, <<>>)}

LookupCollections ==
    {<<f>> : f \in LookupFiles} \cup {<<f, g>> : f \in LookupFiles, g \in LookupFiles}

RequestNames ==
    {<<"G", "e", "t">>, <<"g", "e", "t">>, <<"G", "e", "t", "U">>, <<"P">>, <<>>}

----------------------------------------------------------------------------
(* Initial states and specifications *)

CacheInit ==
    /\ cache = [ns \in Namespaces |-> EmptyMap]
    /\ now = 0
    /\ cret = NoCret
    /\ lastSet = EmptyMap

ListInit ==
    /\ collections = [c \in CollectionPaths |-> [kind |-> "collection", version |-> 1]]
    /\ pc = [p \in Procs |-> "idle"]
    /\ local = [p \in Procs |-> NoLocal]
    /\ writeOrder = <<>>

\* config.timeout: the schema's minimum or its default for either field
TimeoutConfigs ==
    [request : {1000, 30000}, collection : {1000, 120000}]

NoNorm == [op |-> "none", result |-> NoValue, jsonOutput |-> JNull, value |-> NoValue]

\* no parsing call has been made; the collection holds one request
----------------------------------------------------------------------------
(* Paths (node:path) and security validation (security.ts) *)

\* a path is the sequence of its components; an absolute path starts with "/"
ProcessCwd == <<"/", "w">>

\* the directories and files that exist
ExistingPaths ==
    {<<"/">>, <<"/", "a">>, <<"/", "a", "c">>, <<"/", "a", "c", "f">>,
     <<"/", "o">>, <<"/", "o", "c">>, <<"/", "w">>}

\* the directories that are Bruno collections
CollectionDirs == {<<"/", "a", "c">>, <<"/", "o", "c">>, <<"/", "w">>}

\* path.isAbsolute
isAbsolute(p) == p # <<>> /\ p[1] = "/"

\* path.normalize of the components from i on: "." is dropped and ".." takes
\* the component before it away, never the root
RECURSIVE normalize(_, _, _)
normalize(p, i, acc) ==
    IF i > Len(p) THEN acc
    ELSE IF p[i] = "." THEN normalize(p, i + 1, acc)
    ELSE IF p[i] = ".."
         THEN normalize(p, i + 1,
                        IF Len(acc) > 1 THEN SubSeq(acc, 1, Len(acc) - 1) ELSE acc)
    ELSE normalize(p, i + 1, Append(acc, p[i]))

\* path.resolve(from, p)
resolveFrom(from, p) ==
    IF isAbsolute(p) THEN normalize(p, 2, <<"/">>)
    ELSE normalize(from \o p, 2, <<"/">>)

\* path.resolve(p): relative paths are taken from the working directory of
\* the server process
resolve(p) == resolveFrom(ProcessCwd, p)

\* the number of leading components two absolute paths share
RECURSIVE commonPrefix(_, _, _)
commonPrefix(from, to, n) ==
    IF n < Len(from) /\ n < Len(to) /\ from[n + 1] = to[n + 1]
    THEN commonPrefix(from, to, n + 1)
    ELSE n

\* path.relative(from, to) of two absolute paths
relative(from, to) ==
    LET n == commonPrefix(from, to, 0) IN
    [i \in 1..(Len(from) - n) |-> ".."] \o SubSeq(to, n + 1, Len(to))

\* validatePath: whether targetPath exists and lies within an allowed directory
validatePath(targetPath, allowedPaths) ==
    IF allowedPaths = <<>> THEN [valid |-> TRUE, error |-> "none"]
    ELSE LET absolutePath == resolve(targetPath) IN
         IF absolutePath \notin ExistingPaths
         THEN [valid |-> FALSE, error |-> "Path does not exist"]
         ELSE IF \E i \in 1..Len(allowedPaths) :
                    LET relativePath == relative(resolve(allowedPaths[i]), absolutePath)
                    IN ~(relativePath # <<>> /\ relativePath[1] = "..")
                       /\ ~isAbsolute(relativePath)
              THEN [valid |-> TRUE, error |-> "none"]
              ELSE [valid |-> FALSE, error |-> "Path is not within allowed directories"]

\* the characters an environment variable name may hold besides digits
NameLetters == {"K", "L", "_"}

\* the characters of the first dangerous pattern: ; & | backtick $ ( )
InjectionChars == {";", "&", "|", "backtick", "$", "(", ")"}

\* validateEnvVarName: /^[A-Za-z_][A-Za-z0-9_]*$/
validateEnvVarName(name) ==
    /\ name # <<>>
    /\ name[1] \in NameLetters
    /\ \A i \in 1..Len(name) : name[i] \in NameLetters \cup Digits

\* validateEnvVarValue: none of the dangerous patterns matches; the three
\* patterns after the first each need a character of the first
validateEnvVarValue(value) ==
    ~\E i \in 1..Len(value) : value[i] \in InjectionChars

\* the for loop of sanitizeEnvVariables over the entries, from entry i on
RECURSIVE sanitizeEntries(_, _, _)
sanitizeEntries(envVars, i, acc) ==
    IF i > Len(envVars) THEN acc
    ELSE IF ~validateEnvVarName(envVars[i].key)
         THEN sanitizeEntries(envVars, i + 1,
                  [acc EXCEPT !.warnings = Append(@, envVars[i].key)])
    ELSE IF ~validateEnvVarValue(envVars[i].value)
         THEN sanitizeEntries(envVars, i + 1,
                  [acc EXCEPT !.warnings = Append(@, envVars[i].key)])
    ELSE sanitizeEntries(envVars, i + 1,
             [acc EXCEPT !.sanitized = Append(@, envVars[i])])

\* sanitizeEnvVariables: the entries that pass, and a warning for each that
\* does not
sanitizeEnvVariables(envVars) ==
    sanitizeEntries(envVars, 1, [sanitized |-> <<>>, warnings |-> <<>>])

\* validateRequestName
validateRequestName(name) ==
    ~(includes(name, <<".", ".">>) \/ includes(name, <<"\\">>)
      \/ startsWithAt(name, 1, <<"/">>))

\* validateFolderPath
validateFolderPath(folderPath) ==
    ~(\E i \in 1..Len(folderPath) : folderPath[i] = "..") /\ ~isAbsolute(folderPath)

\* validateToolParameters: a parameter that is absent or the empty string is
\* not validated; the sanitized variables are dropped, the warnings kept
validateToolParameters(params, allowedPaths) ==
    LET errors ==
            (IF params.collectionPath # <<>>
                  /\ ~validatePath(params.collectionPath, allowedPaths).valid
             THEN <<validatePath(params.collectionPath, allowedPaths).error>>
             ELSE <<>>)
            \o (IF params.requestName # <<>> /\ ~validateRequestName(params.requestName)
                THEN <<"Request name contains invalid characters">> ELSE <<>>)
            \o (IF params.folderPath # <<>> /\ ~validateFolderPath(params.folderPath)
                THEN <<"Folder path is not a relative path below the root">>
                ELSE <<>>)
    IN [valid |-> errors = <<>>, errors |-> errors,
        warnings |-> sanitizeEnvVariables(params.envVariables).warnings]

----------------------------------------------------------------------------
(* The command line of the executor (bruno-cli.ts) and the run tools (index.ts) *)

\* path.basename(envPath, '.bru'), and the removal of a trailing .bru, on the
\* last component
stripBru(name) == IF name = "e.bru" THEN "e" ELSE name

\* the name handed to --env for options.environment
envName(environment) ==
    IF isAbsolute(environment) \/ Len(environment) > 1
    THEN stripBru(environment[Len(environment)])
    ELSE stripBru(environment[1])

NoReport == <<>>

\* the arguments of the executor that runRequest and runCollection build:
\* the target, then --env, --env-var and the reporter options
buildArgs(target, options) ==
    [target |-> target,
     env |-> IF options.environment # <<>> THEN <<envName(options.environment)>>
             ELSE <<>>,
     envVars |-> options.envVariables,
     reporterJson |-> options.reporterJson,
     reporterJunit |-> options.reporterJunit,
     reporterHtml |-> options.reporterHtml]

NoArgs == [target |-> <<>>, env |-> <<>>, envVars |-> <<>>, reporterJson |-> NoReport,
           reporterJunit |-> NoReport, reporterHtml |-> NoReport]

NoParams == [collectionPath |-> <<>>, requestName |-> <<>>, folderPath |-> <<>>,
             environment |-> <<>>, envVariables |-> <<>>, reporterJson |-> NoReport,
             reporterJunit |-> NoReport, reporterHtml |-> NoReport, dryRun |-> FALSE]

NoTool == [op |-> "none", params |-> NoParams, kind |-> "none", error |-> "none",
           warnings |-> <<>>, reads |-> {}, spawned |-> FALSE, mock |-> FALSE,
           cwd |-> <<>>, args |-> NoArgs]

\* fs.readdir of the collection directory in findBrunoRequests: the files of
\* a collection, a rejection for a path that does not exist
collectionFiles(collectionPath) ==
    IF resolve(collectionPath) \in CollectionDirs THEN files ELSE <<>>

\* a handler that never takes the dry-run branch
isDryRunIgnored(params) == FALSE

\* params.dryRun
isDryRun(params) == params.dryRun

\* BrunoCLI.runRequest as the run tool sees it: the directory it lists, and
\* the executor it spawns with its working directory and arguments;
\* requestFile is what its call of findRequestFile returns
runRequest(collectionPath, requestFile, options) ==
    IF resolve(collectionPath) \notin ExistingPaths
    THEN [NoTool EXCEPT !.kind = "error", !.error = "ENOENT",
                        !.reads = {resolve(collectionPath)}]
    ELSE    IF requestFile = NoFile
            THEN [NoTool EXCEPT !.kind = "error", !.error = "requestNotFound",
                                !.reads = {resolve(collectionPath)}]
            ELSE [NoTool EXCEPT
                    !.kind = "value",
                    !.reads = {resolve(collectionPath)},
                    !.spawned = TRUE,
                    !.cwd = collectionPath,
                    !.args = buildArgs(<<files[requestFile].name>>, options)]

\* BrunoCLI.runCollection as the run tool sees it
runCollection(collectionPath, options) ==
    [NoTool EXCEPT
       !.kind = "value",
       !.spawned = TRUE,
       !.cwd = collectionPath,
       !.args = buildArgs(IF options.folderPath # <<>> THEN options.folderPath
                          ELSE <<".">>,
                          options)]

\* BrunoCLI.isAvailable: the executor is run with --version
isAvailable ==
    [NoTool EXCEPT !.kind = "value", !.spawned = TRUE, !.args.target = <<"--version">>]

\* handleDryRunRequest: getRequestDetails and nothing else; requestFile is
\* what its call of findRequestFile returns
handleDryRunRequest(params, requestFile) ==
    IF resolve(params.collectionPath) \notin ExistingPaths \/ requestFile = NoFile
    THEN [NoTool EXCEPT !.kind = "error", !.error = "Dry run validation failed",
                        !.reads = {resolve(params.collectionPath)}]
    ELSE [NoTool EXCEPT !.kind = "value", !.reads = {resolve(params.collectionPath)}]

\* handleDryRunCollection: listRequests, then getRequestDetails of each request
handleDryRunCollection(params) ==
    IF resolve(params.collectionPath) \notin CollectionDirs
    THEN [NoTool EXCEPT !.kind = "error", !.error = "Dry run validation failed",
                        !.reads = {resolve(params.collectionPath)}]
    ELSE [NoTool EXCEPT !.kind = "value", !.reads = {resolve(params.collectionPath)}]

SecurityError == [NoTool EXCEPT !.kind = "error", !.error = "Security validation failed"]

\* handleRunRequest
handleRunRequest(params, requestFile) ==
    LET validation == validateToolParameters(
                          [collectionPath |-> params.collectionPath,
                           requestName |-> params.requestName,
                           folderPath |-> <<>>,
                           envVariables |-> params.envVariables],
                          config.security.allowedPaths)
        result == IF isDryRun(params) THEN handleDryRunRequest(params, requestFile)
                  ELSE runRequest(params.collectionPath, requestFile, params)
    IN IF ~validation.valid THEN SecurityError
       ELSE [result EXCEPT !.warnings = validation.warnings]

\* handleRunCollection
handleRunCollection(params) ==
    LET validation == validateToolParameters(
                          [collectionPath |-> params.collectionPath,
                           requestName |-> <<>>,
                           folderPath |-> params.folderPath,
                           envVariables |-> params.envVariables],
                          config.security.allowedPaths)
        result == IF isDryRun(params) THEN handleDryRunCollection(params)
                  ELSE runCollection(params.collectionPath, params)
    IN IF ~validation.valid THEN SecurityError
       ELSE [result EXCEPT !.warnings = validation.warnings]

\* the bruno_run_request tool on the arguments that arrived
HandleRunRequest ==
    /\ \E entries \in {collectionFiles(tool.params.collectionPath)} :
       \E requestFile \in {findRequestFile(entries, tool.params.requestName)} :
          tool' = [handleRunRequest(tool.params, requestFile) EXCEPT
                     !.op = "bruno_run_request", !.params = tool.params]
    /\ UNCHANGED <<config, logs, metrics, listing>>
    /\ UNCHANGED textVars
    /\ UNCHANGED <<discVars, cacheEnabled, cacheVars, listVars, runVars>>

\* the bruno_run_collection tool on the arguments that arrived
HandleRunCollection ==
    /\ tool' = [handleRunCollection(tool.params) EXCEPT
                  !.op = "bruno_run_collection", !.params = tool.params]
    /\ UNCHANGED <<config, logs, metrics, listing>>
    /\ UNCHANGED textVars
    /\ UNCHANGED <<discVars, cacheEnabled, cacheVars, listVars, runVars>>

\* the bruno_health_check tool: the availability check
HandleHealthCheck ==
    /\ tool' = [isAvailable EXCEPT !.op = "bruno_health_check", !.params = tool.params]
    /\ UNCHANGED <<config, logs, metrics, listing>>
    /\ UNCHANGED textVars
    /\ UNCHANGED <<discVars, cacheEnabled, cacheVars, listVars, runVars>>

----------------------------------------------------------------------------
(* Logger: writeToFile and rotateLogFiles (logger.ts) *)

\* log messages are numbered; no message is logged beyond this number
MaxMessages == 4

\* the default of Logger.maxLogFiles
DefaultMaxLogFiles == 5

\* config.logging.maxLogSize in the configurations of the logger: one
\* message and its newline fit, a second message does not
MaxLogSize == 2

\* the length of every message
MessageLength == 1

\* the invocations of writeToFile that can be in progress at once: log calls
\* are not awaited by their callers
Writers == {1, 2}

\* a file that does not exist
Absent == <<0>>

\* initializeLogger: a maxLogFiles of 0 in the configuration leaves the default
initializeLogger(maxLogFiles) ==
    IF maxLogFiles # 0 THEN maxLogFiles ELSE DefaultMaxLogFiles

\* fs.rename(old, new) on the log file (index 0) and its rotated files
\* (index i is <log>.i); a missing old file makes it reject, which is ignored
rename(fileMap, old, new) ==
    IF fileMap[old] = Absent THEN fileMap
    ELSE [fileMap EXCEPT ![new] = fileMap[old], ![old] = Absent]

\* fs.unlink
unlink(fileMap, f) == [fileMap EXCEPT ![f] = Absent]

\* fs.appendFile
appendFile(fileMap, f, message) ==
    [fileMap EXCEPT ![f] = IF @ = Absent THEN <<message>> ELSE Append(@, message)]

IdleWriter == [pc |-> "idle", i |-> 0, message |-> 0]

\* the position of a writer that enters rotateLogFiles: the first rename of
\* the loop, or the rename of the current file when the loop has no turn
startRotation(maxLogFiles) ==
    IF maxLogFiles - 1 >= 1 THEN [pc |-> "rename", i |-> maxLogFiles - 1]
    ELSE [pc |-> "renameCurrent", i |-> 0]

\* a log call reaches writeToFile and runs up to its first await: the
\* rotation test, then the first file operation is issued
Log(w) ==
    /\ logs.writers[w].pc = "idle"
    /\ logs.next <= MaxMessages
    /\ LET rotate == logs.currentLogSize + MessageLength > MaxLogSize
           start == startRotation(logs.maxLogFiles)
       IN logs' = [logs EXCEPT
                    !.next = @ + 1,
                    !.writers[w] = IF rotate
                                   THEN [pc |-> start.pc, i |-> start.i,
                                         message |-> logs.next]
                                   ELSE [pc |-> "append", i |-> 0,
                                         message |-> logs.next],
                    !.overlap = @ \/ \E v \in Writers \ {w} :
                                        logs.writers[v].pc # "idle"]
    /\ UNCHANGED <<config, tool, metrics, listing>>
    /\ UNCHANGED textVars
    /\ UNCHANGED <<discVars, cacheEnabled, cacheVars, listVars, runVars>>

\* one turn of the loop of rotateLogFiles: <log>.i is renamed to <log>.(i+1)
Rename(w) ==
    /\ logs.writers[w].pc = "rename"
    /\ LET i == logs.writers[w].i IN
       logs' = [logs EXCEPT
                  !.files = rename(@, i, i + 1),
                  !.writers[w].i = i - 1,
                  !.writers[w].pc = IF i - 1 >= 1 THEN "rename" ELSE "renameCurrent"]
    /\ UNCHANGED <<config, tool, metrics, listing>>
    /\ UNCHANGED textVars
    /\ UNCHANGED <<discVars, cacheEnabled, cacheVars, listVars, runVars>>

\* rotateLogFiles moves the current log file to <log>.1
RenameCurrent(w) ==
    /\ logs.writers[w].pc = "renameCurrent"
    /\ logs' = [logs EXCEPT
                  !.files = rename(@, 0, 1),
                  !.writers[w].pc = IF logs.maxLogFiles > 0 THEN "unlink" ELSE "append",
                  !.currentLogSize = IF logs.maxLogFiles > 0 THEN @ ELSE 0]
    /\ UNCHANGED <<config, tool, metrics, listing>>
    /\ UNCHANGED textVars
    /\ UNCHANGED <<discVars, cacheEnabled, cacheVars, listVars, runVars>>

\* rotateLogFiles deletes <log>.(maxLogFiles + 1) and returns; writeToFile
\* resets currentLogSize and issues the append
Unlink(w) ==
    /\ logs.writers[w].pc = "unlink"
    /\ logs' = [logs EXCEPT
                  !.files = unlink(@, logs.maxLogFiles + 1),
                  !.currentLogSize = 0,
                  !.writers[w].pc = "append"]
    /\ UNCHANGED <<config, tool, metrics, listing>>
    /\ UNCHANGED textVars
    /\ UNCHANGED <<discVars, cacheEnabled, cacheVars, listVars, runVars>>

\* writeToFile appends the message and adds its length to currentLogSize
AppendFile(w) ==
    /\ logs.writers[w].pc = "append"
    /\ logs' = [logs EXCEPT
                  !.files = appendFile(@, 0, logs.writers[w].message),
                  !.currentLogSize = @ + MessageLength + 1,
                  !.writers[w] = IdleWriter]
    /\ UNCHANGED <<config, tool, metrics, listing>>
    /\ UNCHANGED textVars
    /\ UNCHANGED <<discVars, cacheEnabled, cacheVars, listVars, runVars>>

\* config.logging.maxLogFiles
MaxLogFilesInputs == {0, 1, 2, 3}

----------------------------------------------------------------------------
(* Tool arguments and configurations *)

AllowedPathInputs == {<<>>, <<(<<"/", "a">>)>>}

Configs ==
    [useMockCLI : BOOLEAN, security : [allowedPaths : AllowedPathInputs]]

DefaultConfig == [useMockCLI |-> FALSE, security |-> [allowedPaths |-> <<>>]]

\* a collection inside the allowed directory, one outside it, a path that
\* does not exist, a path that leaves the allowed directory through ".."
CollectionPathInputs ==
    {<<"/", "a", "c">>, <<"/", "o", "c">>, <<"/", "a", "n">>,
     <<"/", "a", "..", "o", "c">>}

RequestNameInputs == {<<"R">>, <<"Q">>, <<".", ".", "/", "R">>}

FolderPathInputs == {<<>>, <<"f">>, <<"..", "o">>}

EnvironmentInputs == {<<>>, <<"e">>, <<"/", "o", "e.bru">>}

EnvVar(key, value) == [key |-> key, value |-> value]

EnvVariableInputs ==
    {<<>>,
     <<EnvVar(<<"K">>, <<"v">>)>>,
     <<EnvVar(<<"1", "K">>, <<"v">>)>>,
     <<EnvVar(<<"K">>, <<"v", ";", "x">>)>>,
     <<EnvVar(<<"K">>, <<"v">>), EnvVar(<<"L">>, <<"$", "(", "x", ")">>)>>}

\* no report, a JSON report outside the allowed directory, a JUnit report
\* that leaves the collection through "..", an HTML report inside the
\* collection
ReportInputs ==
    {[reporterJson |-> NoReport, reporterJunit |-> NoReport, reporterHtml |-> NoReport],
     [reporterJson |-> <<"/", "o", "r">>, reporterJunit |-> NoReport,
      reporterHtml |-> NoReport],
     [reporterJson |-> NoReport, reporterJunit |-> <<"..", "..", "o", "r">>,
      reporterHtml |-> NoReport],
     [reporterJson |-> NoReport, reporterJunit |-> NoReport, reporterHtml |-> <<"r">>]}

ToolParams ==
    {[collectionPath |-> c, requestName |-> n, folderPath |-> f, environment |-> e,
      envVariables |-> v, reporterJson |-> r.reporterJson,
      reporterJunit |-> r.reporterJunit, reporterHtml |-> r.reporterHtml,
      dryRun |-> d] :
        c \in CollectionPathInputs, n \in RequestNameInputs, f \in FolderPathInputs,
        e \in EnvironmentInputs, v \in EnvVariableInputs, r \in ReportInputs,
        d \in BOOLEAN}

AuxInit ==
    /\ config = DefaultConfig
    /\ tool = NoTool
    /\ logs = <<>>
    /\ metrics = <<>>
    /\ listing = <<>>

TextInit ==
    /\ files = DefaultFiles
    /\ envContent = <<>>
    /\ details = NoDetails
    /\ norm = NoNorm

RunInit ==
    /\ timeouts = [request |-> 30000, collection |-> 120000]
    /\ run = NoRun

\* discovery over every tree the candidates allow
InitDiscovery ==
    /\ markers \in SUBSET MarkerCandidates
    /\ unreadable \in SUBSET UnreadableCandidates
    /\ cacheEnabled \in BOOLEAN
    /\ disc = NoDisc
    /\ instance = "collectionDiscovery"
    /\ CacheInit /\ ListInit /\ AuxInit /\ RunInit /\ TextInit

NextDiscovery ==
    \/ \E p \in SearchPaths, h \in BOOLEAN, d \in DepthInputs : DiscoverCollections(p, h, d)
    \/ \E p \in SearchPaths, h \in BOOLEAN, d \in DepthInputs : HandleDiscoverCollections(p, h, d)
    \/ ClearCache

SpecDiscovery == InitDiscovery /\ [][NextDiscovery]_vars

\* discovery over trees that hold collections in and below .git and node_modules
InitExcluded ==
    /\ markers \in SUBSET ExcludedMarkerCandidates
    /\ unreadable = {}
    /\ cacheEnabled \in BOOLEAN
    /\ disc = NoDisc
    /\ instance = "collectionDiscovery"
    /\ CacheInit /\ ListInit /\ AuxInit /\ RunInit /\ TextInit

SpecExcluded == InitExcluded /\ [][NextDiscovery]_vars

\* one Cache instance under every sequence of its operations
InitCache ==
    /\ markers = {}
    /\ unreadable = {}
    /\ cacheEnabled = TRUE
    /\ disc = NoDisc
    /\ instance \in Namespaces
    /\ CacheInit /\ ListInit /\ AuxInit /\ RunInit /\ TextInit

NextCache ==
    \/ \E k \in CacheKeys, v \in Values : Set(k, v)
    \/ \E k \in CacheKeys : Get(k)
    \/ \E k \in CacheKeys : Has(k)
    \/ \E k \in CacheKeys : Delete(k)
    \/ Clear
    \/ Size
    \/ GetStats
    \/ Tick

SpecCache == InitCache /\ [][NextCache]_vars

\* two listRequests invocations in flight while the filesystem changes
InitList ==
    /\ markers = {}
    /\ unreadable = {}
    /\ cacheEnabled \in BOOLEAN
    /\ disc = NoDisc
    /\ instance = "requestList"
    /\ CacheInit /\ ListInit /\ AuxInit /\ RunInit /\ TextInit

NextList ==
    \/ \E c \in CollectionPaths, st \in CollectionStates : FsChange(c, st)
    \/ \E p \in Procs, c \in CollectionPaths : ListRequestsLookup(p, c)
    \/ \E p \in Procs : ListRequestsScan(p)
    \/ \E p \in Procs : ListRequestsStore(p)

SpecList == InitList /\ [][NextList]_vars

\* the calls that invoke the executor, under every executor behaviour
InitRun ==
    /\ markers = {}
    /\ unreadable = {}
    /\ cacheEnabled = TRUE
    /\ disc = NoDisc
    /\ instance = "requestList"
    /\ CacheInit /\ ListInit /\ AuxInit /\ TextInit
    /\ timeouts \in TimeoutConfigs
    /\ run = NoRun

\* what the executor leaves behind: a process that never started leaves nothing
ExecutorRuns ==
    {[behaviour |-> "missing", artifact |-> ArtifactAbsent, stdout |-> StdoutEmpty,
      stderr |-> "empty"]}
    \cup [behaviour : Behaviours \ {"missing"}, artifact : Artifacts, stdout : Stdouts,
          stderr : StderrKinds]

NextRun ==
    \/ \E b \in Behaviours : IsAvailable(b)
    \/ \E x \in ExecutorRuns :
           RunRequest(<<"R">>, x.behaviour, x.artifact, x.stdout, x.stderr)
    \/ RunRequest(<<"Q">>, "missing", ArtifactAbsent, StdoutEmpty, "empty")
    \/ \E x \in ExecutorRuns :
           RunCollection(x.behaviour, x.artifact, x.stdout, x.stderr)

SpecRun == InitRun /\ [][NextRun]_vars

\* lookup of a request by name over every collection the files allow
InitLookup ==
    /\ markers = {}
    /\ unreadable = {}
    /\ cacheEnabled = TRUE
    /\ disc = NoDisc
    /\ instance = "requestList"
    /\ CacheInit /\ ListInit /\ AuxInit /\ RunInit
    /\ files \in LookupCollections
    /\ envContent = <<>>
    /\ details = NoDetails
    /\ norm = NoNorm

NextLookup ==
    \/ \E n \in RequestNames : GetRequestDetails(n)
    \/ \E n \in RequestNames :
           RunRequest(n, "exitZero", ArtifactJson(PayloadRun), StdoutEmpty, "empty")

SpecLookup == InitLookup /\ [][NextLookup]_vars

\* the parsers over every request file and environment file of the sets above
InitParse ==
    /\ markers = {}
    /\ unreadable = {}
    /\ cacheEnabled = TRUE
    /\ disc = NoDisc
    /\ instance = "requestList"
    /\ CacheInit /\ ListInit /\ AuxInit /\ RunInit
    /\ \E text \in RequestTexts \cup MethodTexts : files = <<File(<<"R">>, text)>>
    /\ envContent \in EnvTexts
    /\ details = NoDetails
    /\ norm = NoNorm

NextParse ==
    \/ \E n \in {<<"R">>, <<"N">>} : GetRequestDetails(n)
    \/ ParseEnvironmentVariables
    \/ ListRequestsOfFiles

SpecParse == InitParse /\ [][NextParse]_vars

\* the run tools and the health check over every configuration and every
\* set of arguments above
InitTools ==
    /\ markers = {}
    /\ unreadable = {}
    /\ cacheEnabled = TRUE
    /\ disc = NoDisc
    /\ instance = "requestList"
    /\ CacheInit /\ ListInit /\ RunInit /\ TextInit
    /\ config \in Configs
    /\ \E params \in ToolParams : tool = [NoTool EXCEPT !.params = params]
    /\ logs = <<>>
    /\ metrics = <<>>
    /\ listing = <<>>

NextTools ==
    \/ HandleRunRequest
    \/ HandleRunCollection
    \/ HandleHealthCheck

SpecTools == InitTools /\ [][NextTools]_vars

\* the logger with a log file configured, over every maxLogFiles above and
\* every interleaving of the file operations of two log calls
InitLogger ==
    /\ markers = {}
    /\ unreadable = {}
    /\ cacheEnabled = TRUE
    /\ disc = NoDisc
    /\ instance = "requestList"
    /\ CacheInit /\ ListInit /\ RunInit /\ TextInit
    /\ config = DefaultConfig
    /\ tool = NoTool
    /\ \E n \in MaxLogFilesInputs :
          logs = [maxLogFiles |-> initializeLogger(n),
                  currentLogSize |-> 0,
                  files |-> [f \in 0..(initializeLogger(n) + 1) |-> Absent],
                  writers |-> [w \in Writers |-> IdleWriter],
                  next |-> 1,
                  overlap |-> FALSE]
    /\ metrics = <<>>
    /\ listing = <<>>

NextLogger ==
    \E w \in Writers :
        \/ Log(w)
        \/ Rename(w)
        \/ RenameCurrent(w)
        \/ Unlink(w)
        \/ AppendFile(w)

SpecLogger == InitLogger /\ [][NextLogger]_vars

\* the normalizer over every input of the sets above
InitNormalize ==
    /\ markers = {}
    /\ unreadable = {}
    /\ cacheEnabled = TRUE
    /\ disc = NoDisc
    /\ instance = "requestList"
    /\ CacheInit /\ ListInit /\ AuxInit /\ RunInit
    /\ files = DefaultFiles
    /\ envContent = <<>>
    /\ details = NoDetails
    /\ \E result \in NormResults, jsonOutput \in JsonOutputs :
          norm = [NoNorm EXCEPT !.result = result, !.jsonOutput = jsonOutput]

NextNormalize == ParseRunResult

SpecNormalize == InitNormalize /\ [][NextNormalize]_vars

----------------------------------------------------------------------------
(* Properties *)

Range(seq) == {seq[i] : i \in 1..Len(seq)}

\* q lies strictly beneath p
IsBelow(q, p) == Len(q) > Len(p) /\ SubSeq(q, 1, Len(p)) = p

\* q is p or lies beneath p
IsWithin(q, p) == q = p \/ IsBelow(q, p)

Called == disc.op # "none"

\* C1: with caching enabled, discoverCollections(path, d) returns the same set
\* of collection roots as a walk of the unchanged tree that bypasses the cache,
\* whatever calls came before (also calls for the same path with another depth).
C1_CachingTransparent ==
    (Called /\ cacheEnabled) =>
        Range(disc.value) = Range(walk(disc.searchPath, disc.maxDepth).collections)

\* C2: when the executor times out or exits with a non-zero code, runRequest
\* and runCollection raise an error and return no run result.
C2_FailedRunRaises ==
    (run.op \in {"runRequest", "runCollection"} /\ run.invoked
        /\ run.behaviour \in {"hang", "exitNonZero"})
    => run.kind = "error"

\* C3: discovery never reads a directory whose depth below the search root
\* exceeds min(d, 10), d being the depth discoverCollections was called with.
C3_DepthBound ==
    Called =>
        \A p \in disc.reads :
            Len(p) - Len(disc.searchPath) <= Min(disc.maxDepth, DepthCap)

\* C3 witness: a call with d above 10 whose walk went down to depth 10
C3_Witness ==
    /\ Called /\ disc.maxDepth > DepthCap
    /\ \E p \in disc.reads : Len(p) - Len(disc.searchPath) = DepthCap

\* the reads and the result of a walk bounded by the caller's maxDepth clamped
\* to [0, 10]
ClampedWalk(searchPath, maxDepth) ==
    searchDirectory(searchPath, 0, Max(0, Min(maxDepth, DepthCap)),
                    [collections |-> <<>>, reads |-> {}])

\* C4: the depth bound discovery uses is the caller's maxDepth clamped to
\* [0, 10]: below 0 behaves as 0, above 10 as 10, and a supplied value inside
\* the interval (0 included) is used unchanged.
C4_ClampedToZeroTen ==
    (Called /\ disc.hasParam /\ ~disc.fromCache) =>
        /\ disc.reads = ClampedWalk(disc.searchPath, disc.param).reads
        /\ disc.value = ClampedWalk(disc.searchPath, disc.param).collections

\* C5: when a directory with bruno.json has a deeper directory that also has
\* bruno.json, discovery returns the outer directory only and reads no
\* directory beneath it.
C5_NoDescentBelowCollection ==
    Called =>
        \A outer \in markers :
            /\ (outer \in disc.reads /\ outer \notin unreadable) =>
                   /\ outer \in Range(disc.value)
                   /\ \A q \in Dirs : IsBelow(q, outer) => q \notin disc.reads
            /\ (IsWithin(outer, disc.searchPath) /\ outer \notin unreadable) =>
                   \A q \in Range(disc.value) : ~IsBelow(q, outer)

\* C5 witness: a walk that read a collection root which has a nested marker
C5_Witness ==
    /\ Called
    /\ \E outer \in markers, inner \in markers :
           /\ IsBelow(inner, outer)
           /\ outer \in disc.reads
           /\ disc.maxDepth >= Len(inner) - Len(disc.searchPath)

\* the keys whose latest set is older than the instance's TTL
ExpiredSinceSet == {k \in DOMAIN lastSet : now - lastSet[k] > TTL(instance)}

\* C6: set(k, v) followed at once by get(k) returns v; once more than the TTL
\* has passed since the set, get(k) returns nothing and stats() (and size())
\* report a size and a key list that leave k out.
C6_SetGetExpiry ==
    [][/\ (cret.op = "set" /\ cret'.op = "get" /\ cret'.key = cret.key) =>
              (cret'.hit /\ cret'.value = cret.value)
       /\ (cret'.op = "get" /\ cret'.key \in ExpiredSinceSet) => ~cret'.hit
       /\ cret'.op = "stats" =>
              /\ cret'.keys \cap ExpiredSinceSet = {}
              /\ cret'.size = Cardinality(cret'.keys)
       /\ cret'.op = "size" =>
              cret'.size <= Cardinality((DOMAIN lastSet) \ ExpiredSinceSet)
      ]_vars

\* C6 witness: a get of a key whose set is older than the TTL came back empty
C6_Witness ==
    cret.op = "get" /\ ~cret.hit /\ cret.key \in ExpiredSinceSet

Live(k) ==
    k \in DOMAIN cache[instance] /\ ~isExpired(cache[instance][k], now, TTL(instance))

\* C7 as claimed: under any sequence of set, get, has, size and stats, the hit
\* count of a key never decreases while the key stays present and unexpired.
C7_HitsNeverDecrease ==
    [][\A k \in CacheKeys :
          (Live(k) /\ k \in DOMAIN cache'[instance]) =>
              cache'[instance][k].hits >= cache[instance][k].hits
      ]_vars

\* C7 as amended: the hit count of a present, unexpired key never decreases
\* under get, has, size, stats and sets of other keys; set(k, v) replaces the
\* entry of k and starts its hit count again at 0.
C7_HitsMonotoneExceptSet ==
    [][\A k \in CacheKeys :
          (Live(k) /\ k \in DOMAIN cache'[instance]) =>
              IF cret'.op = "set" /\ cret'.key = k
              THEN cache'[instance][k].hits = 0
              ELSE cache'[instance][k].hits >= cache[instance][k].hits
      ]_vars

\* C7 witness: a read hit an entry that had been hit before
C7_Witness ==
    /\ cret.op \in {"get", "has"} /\ cret.hit
    /\ cret.key \in DOMAIN cache[instance]
    /\ cache[instance][cret.key].hits >= 2

\* C8: when two invocations both miss the cache for one key and both write it,
\* the key ends up present with the value the later set wrote, and neither
\* invocation raises.
C8_LastWriterWins ==
    (Len(writeOrder) = 2 /\ local[1].path = local[2].path) =>
        LET k == local[1].path
            last == writeOrder[2]
        IN /\ k \in DOMAIN cache["requestList"]
           /\ cache["requestList"][k].data = local[last].requests
           /\ \A p \in Procs : local[p].outcome = "value" /\ ~local[p].fromCache

\* C8 witness: both wrote the same key, with different values
C8_Witness ==
    /\ Len(writeOrder) = 2 /\ local[1].path = local[2].path
    /\ local[1].requests # local[2].requests

\* C9: every invocation of the executor (the version probe, the request run,
\* the collection run) carries a timeout, so none blocks for ever.
C9_EveryInvocationTimesOut ==
    run.invoked => (run.timeout # NoTimeout /\ run.kind # "blocked")

\* C10: discovery raises when the search path itself cannot be read.
C10_UnreadableRootRaises ==
    (Called /\ ~disc.fromCache /\ disc.maxDepth >= 0 /\ disc.searchPath \in unreadable)
    => disc.kind = "error"

\* the collection roots that can be reached from searchPath inside the depth
\* bound going through readable directories that the walk descends into
ReachableRoots(searchPath, maxDepth) ==
    {q \in markers :
        /\ IsWithin(q, searchPath)
        /\ Len(q) - Len(searchPath) <= Min(maxDepth, DepthCap)
        /\ q \notin unreadable
        /\ \A n \in Len(searchPath)..(Len(q) - 1) :
              /\ SubSeq(q, 1, n) \notin unreadable
              /\ SubSeq(q, 1, n) \notin markers
        /\ \A n \in (Len(searchPath) + 1)..Len(q) :
              q[n] \notin HiddenNames \cup {"node_modules"}}

\* C11: a walk that meets an unreadable directory below the search root still
\* returns normally, and returns every collection root that can be reached
\* through readable directories within the depth bound
C11_ReadFailureSkipped ==
    (Called /\ ~disc.fromCache)
    => /\ disc.kind = "value"
       /\ ReachableRoots(disc.searchPath, disc.maxDepth) \subseteq Range(disc.value)

\* a walk read an unreadable directory below the search root and then
\* returned a collection root that comes after it in the listing
C11_Witness ==
    /\ Called /\ ~disc.fromCache /\ disc.kind = "value"
    /\ \E u \in unreadable \cap disc.reads :
          /\ u # disc.searchPath
          /\ \E q \in Range(disc.value) \cap ReachableRoots(disc.searchPath, disc.maxDepth) :
                q # u

\* name is the name of a request parsed from the collection
IsRequestName(name) ==
    \E n \in 1..Len(findBrunoRequests(files)) : findBrunoRequests(files)[n].name = name

\* C12: runRequest and getRequestDetails called with a name that no request
\* parsed from the collection has raise "not found"; they neither run nor
\* return another request
C12_UnknownNameNotFound ==
    /\ (details.op = "getRequestDetails" /\ ~IsRequestName(details.requestName))
         => (details.kind = "error" /\ details.error = "requestNotFound")
    /\ (run.op = "runRequest" /\ ~IsRequestName(run.requestName))
         => (run.kind = "error" /\ run.error = "requestNotFound" /\ ~run.invoked)

\* the errors reported for an executor that was started and failed
StartedFailureErrors ==
    {handleError(execa(b, FALSE, timeouts.request, StdoutEmpty, e).result) :
        b \in {"exitNonZero", "hang"}, e \in StderrKinds}

\* C13: runRequest and runCollection report a missing executor binary with an
\* error, and that error is none of the errors reported for an executor that
\* was started and failed
C13_MissingExecutorDistinct ==
    (run.op \in {"runRequest", "runCollection"} /\ run.invoked
        /\ run.behaviour = "missing")
    => (run.kind = "error" /\ run.error \notin StartedFailureErrors)

Normalized == norm.op = "parseRunResult"

\* the JSON value the normalizer works from: the artifact, else stdout
NormInput == or(norm.jsonOutput, tryParseJson(norm.result.stdout))

IsObjects(arr) == \A i \in 1..Len(arr.v) : arr.v[i].t = "obj"

\* C14: for an object payload with a results array of objects and no summary,
\* or a summary without totalRequests and total, the normalized result has a
\* summary whose total is the number of results
C14_TotalFoldedFromResults ==
    (/\ Normalized
     /\ NormInput.t = "obj"
     /\ isArray(Field(NormInput, "results"))
     /\ IsObjects(Field(NormInput, "results"))
     /\ Field(Field(NormInput, "summary"), "totalRequests") = JUndef
     /\ Field(Field(NormInput, "summary"), "total") = JUndef)
    => /\ norm.value.summary.present
       /\ norm.value.summary.totalRequests = JNum(Len(Field(NormInput, "results").v))

\* C15: the normalizer never raises, and without a JSON value it returns the
\* exit code, stdout and stderr it was given and neither summary nor results
C15_NeverRaises ==
    Normalized =>
        /\ ~norm.value.threw
        /\ ~truthy(NormInput) =>
              /\ norm.value.exitCode = norm.result.exitCode
              /\ norm.value.stdout = norm.result.stdout
              /\ norm.value.stderr = norm.result.stderr
              /\ norm.value.summary = NoSummary
              /\ norm.value.results = NoResults

\* C16: an array payload with one element gives the result of that element,
\* and an array payload with more elements is not unwrapped: no element's
\* summary or results appear in the result
C16_UnwrapsSingleElementOnly ==
    (Normalized /\ isArray(NormInput)) =>
        /\ Len(NormInput.v) = 1 =>
              norm.value = parseRunResult(norm.result, NormInput.v[1])
        /\ Len(NormInput.v) > 1 =>
              (norm.value.summary = NoSummary /\ norm.value.results = NoResults)

\* the value the first present alias of a summary field has, 0 when neither
\* alias is present
FirstPresent(summary, first, second) ==
    IF Field(summary, first) # JUndef THEN Field(summary, first)
    ELSE IF Field(summary, second) # JUndef THEN Field(summary, second)
    ELSE JNum(0)

\* C17: each field of the normalized summary is the value of the first alias
\* present in the payload's summary, whatever that value is; the second alias
\* counts only when the first is absent
C17_FirstPresentAliasWins ==
    (Normalized /\ NormInput.t = "obj" /\ Field(NormInput, "summary").t = "obj") =>
        LET summary == Field(NormInput, "summary") IN
        /\ norm.value.summary.present
        /\ norm.value.summary.totalRequests
              = FirstPresent(summary, "totalRequests", "total")
        /\ norm.value.summary.passedRequests
              = FirstPresent(summary, "passedRequests", "passed")
        /\ norm.value.summary.failedRequests
              = FirstPresent(summary, "failedRequests", "failed")
        /\ norm.value.summary.totalDuration
              = FirstPresent(summary, "totalDuration", "duration")

\* the position of the } that closes, under nested-brace counting, the block
\* that is depth braces deep at position k; 0 when the text ends first
RECURSIVE matchingBrace(_, _, _)
matchingBrace(s, k, depth) ==
    IF k > Len(s) THEN 0
    ELSE IF s[k] = "{" THEN matchingBrace(s, k + 1, depth + 1)
    ELSE IF s[k] = "}"
         THEN IF depth = 1 THEN k ELSE matchingBrace(s, k + 1, depth - 1)
    ELSE matchingBrace(s, k + 1, depth)

\* the opening brace of the first occurrence of label followed by optional
\* white space and {; 0 when there is none
firstOpen(s, label) ==
    LET i == FirstIn({n \in 1..Len(s) : openBrace(s, n, label) # 0}) IN
    IF i = 0 THEN 0 ELSE openBrace(s, i, label)

\* the inner text of the first block with this label, from its opening brace
\* to the closing brace that matches it under nested-brace counting
extractBlock(s, label) ==
    LET j == firstOpen(s, label)
        k == IF j = 0 THEN 0 ELSE matchingBrace(s, j + 1, 1)
    IN IF k = 0 THEN NoMatch ELSE [found |-> TRUE, text |-> SubSeq(s, j + 1, k - 1)]

\* getRequestDetails returned the details parsed from a file
Parsed == details.op = "getRequestDetails" /\ details.kind = "value"

ParsedContent == files[details.file].text

\* the method block the parser chose
ParsedMethod == CHOOSE m \in Range(MethodBlocks) : toUpperCase(m) = details.value.method

\* the block taken has the inner text of the block that nested-brace
\* counting gives, white space at either end aside
SameBlock(taken, counted) ==
    counted.found /\ trim(taken.text) = trim(counted.text)

\* C18: the inner text the parsers take for a block (meta, the method block,
\* headers, body:<kind>, tests, vars) is the text between the block's opening
\* brace and the closing brace that matches it under nested-brace counting
C18_BlocksEndAtMatchingBrace ==
    /\ Parsed =>
         LET blocks == details.value.blocks IN
         /\ blocks.meta.found
              => SameBlock(blocks.meta, extractBlock(ParsedContent, <<"meta">>))
         /\ blocks.method.found
              => SameBlock(blocks.method, extractBlock(ParsedContent, <<ParsedMethod>>))
         /\ blocks.headers.found
              => SameBlock(blocks.headers, extractBlock(ParsedContent, <<"headers">>))
         /\ blocks.body.found
              => SameBlock(blocks.body,
                           extractBlock(ParsedContent,
                                        <<"body", ":", details.value.body.type>>))
         /\ blocks.tests.found
              => SameBlock(blocks.tests, extractBlock(ParsedContent, <<"tests">>))
    /\ (details.op = "parseEnvironmentVariables" /\ details.value.blocks.vars.found)
         => SameBlock(details.value.blocks.vars, extractBlock(envContent, <<"vars">>))

\* the block with this label is opened in s and never closed
Unterminated(s, label) ==
    firstOpen(s, label) # 0 /\ matchingBrace(s, firstOpen(s, label) + 1, 1) = 0

\* C19: getRequestDetails does not raise for a file it found, and a block
\* whose closing brace is missing is absent from what it returns: no text is
\* taken for the block and the fields read from it keep their defaults
C19_UnterminatedBlockAbsent ==
    /\ (details.op = "getRequestDetails" /\ IsRequestName(details.requestName))
         => details.kind = "value"
    /\ Parsed =>
         /\ Unterminated(ParsedContent, <<"meta">>)
              => /\ ~details.value.blocks.meta.found
                 /\ details.value.name = details.requestName
                 /\ details.value.metadata = [type |-> <<"http">>, seq |-> NoSeq]
         /\ Unterminated(ParsedContent, <<"headers">>)
              => /\ ~details.value.blocks.headers.found
                 /\ details.value.headers = EmptyMap
         /\ Unterminated(ParsedContent, <<"tests">>)
              => /\ ~details.value.blocks.tests.found
                 /\ details.value.tests = <<>>
         /\ (\A m \in Range(MethodBlocks) :
                firstOpen(ParsedContent, <<m>>) # 0 => Unterminated(ParsedContent, <<m>>))
              => /\ ~details.value.blocks.method.found
                 /\ details.value.method = "GET"
                 /\ details.value.url = <<>>
         /\ (\A t \in Range(BodyTypes) :
                firstOpen(ParsedContent, <<"body", ":", t>>) # 0
                  => Unterminated(ParsedContent, <<"body", ":", t>>))
              => details.value.body = NoBody

\* the lines of a block's inner text that are not blank, trimmed
EntryLines(text) ==
    LET kept == SelectSeq(split(text), LAMBDA line : trim(line) # <<>>) IN
    [i \in 1..Len(kept) |-> trim(kept[i])]

\* C20: when the file holds a headers block whose content is the two lines
\* 'A: 1' and 'B: 2', with the braces on the lines of the entries or on lines
\* of their own and any white space around, the parsed headers are exactly
\* A -> "1" and B -> "2"
C20_TwoHeadersParsed ==
    (/\ Parsed
     /\ extractBlock(ParsedContent, <<"headers">>).found
     /\ EntryLines(extractBlock(ParsedContent, <<"headers">>).text)
          = <<(<<"A", ":", SP, "1">>), (<<"B", ":", SP, "2">>)>>)
    => details.value.headers = (<<"A">> :> <<"1">>) @@ (<<"B">> :> <<"2">>)


\* the method labels, by their place in the fixed order, that have a block in s
PresentMethods(s) ==
    {m \in 1..Len(MethodBlocks) : extractBlock(s, <<MethodBlocks[m]>>).found}

\* C21: the parsed method is the first label, in the order get, post, put,
\* patch, delete, head, options, that has a block in the file, and url and
\* auth are the entries of that block; a file without a method block gives
\* the method GET and the empty url
C21_FirstMethodBlockWins ==
    Parsed =>
      LET m == FirstIn(PresentMethods(ParsedContent))
          block == extractBlock(ParsedContent, <<MethodBlocks[m]>>).text
          url == matchField(block, "url")
          auth == matchField(block, "auth")
      IN IF m = 0
         THEN details.value.method = "GET" /\ details.value.url = <<>>
         ELSE /\ details.value.method = toUpperCase(MethodBlocks[m])
              /\ details.value.url = (IF url.found THEN url.value ELSE <<>>)
              /\ details.value.auth = (IF auth.found THEN auth.value ELSE <<"none">>)

\* the same for the files whose method blocks end with a brace on a line of
\* its own
C21_OwnLineBlocks ==
    (Parsed /\ ~includes(ParsedContent, PostSameLine)) => C21_FirstMethodBlockWins


\* q lies in or below a child directory, somewhere under searchPath, whose
\* name starts with '.' or is node_modules
InExcluded(q, searchPath) ==
    \E n \in (Len(searchPath) + 1)..Len(q) : q[n] \in HiddenNames \cup {"node_modules"}

\* C22: discovery reads no directory in or below a child directory whose name
\* starts with '.' or equals node_modules, and reports no collection root
\* from inside one
C22_ExcludedNeverEntered ==
    Called =>
      /\ \A q \in disc.reads : ~InExcluded(q, disc.searchPath)
      /\ \A q \in Range(disc.value) : ~InExcluded(q, disc.searchPath)

\* a walk from the top of a tree that holds a bruno.json in .git and one in
\* node_modules read the top and returned a collection root
C22_Witness ==
    /\ Called /\ ~disc.fromCache /\ disc.searchPath = <<>> /\ disc.maxDepth >= 1
    /\ {<<".git">>, <<"node_modules">>} \subseteq markers
    /\ <<>> \in disc.reads
    /\ disc.value = <<(<<"x">>)>>


RunTools == {"bruno_run_request", "bruno_run_collection"}

\* the absolute path p lies in one of the allowed directories
WithinAllowed(p) ==
    \E i \in 1..Len(config.security.allowedPaths) :
        LET allowed == resolve(config.security.allowedPaths[i]) IN
        Len(p) >= Len(allowed) /\ SubSeq(p, 1, Len(allowed)) = allowed

\* the paths of the arguments that the executor was spawned with, resolved
\* from its working directory
ExecutorPaths ==
    IF ~tool.spawned THEN {}
    ELSE {resolve(tool.cwd)}
         \cup {resolveFrom(resolve(tool.cwd), q) :
                 q \in {tool.args.target, tool.args.reporterJson,
                        tool.args.reporterJunit, tool.args.reporterHtml} \ {<<>>}}

\* C23: with a non-empty security.allowedPaths, every path a run tool hands
\* to the filesystem layer or to the executor (the collection path, the
\* folder, the request file, the report output paths) lies in an allowed
\* directory
C23_PathsWithinAllowed ==
    (config.security.allowedPaths # <<>> /\ tool.op \in RunTools)
    => \A p \in tool.reads \cup ExecutorPaths : WithinAllowed(p)

\* the same for the collection path alone
C23_CollectionPathWithinAllowed ==
    (config.security.allowedPaths # <<>> /\ tool.op \in RunTools)
    => \A p \in tool.reads \cup (IF tool.spawned THEN {resolve(tool.cwd)} ELSE {}) :
          WithinAllowed(p)


\* C24: every environment-variable override on the command line of the
\* executor has a valid name and a value free of command-injection
\* characters; an override that fails validation is not passed on
C24_InvalidOverridesFiltered ==
    (tool.op \in RunTools /\ tool.spawned)
    => \A i \in 1..Len(tool.args.envVars) :
          /\ validateEnvVarName(tool.args.envVars[i].key)
          /\ validateEnvVarValue(tool.args.envVars[i].value)

\* C25: a run tool called with dryRun set does not spawn the executor
C25_DryRunNeverSpawns ==
    (tool.op \in RunTools /\ tool.params.dryRun) => ~tool.spawned

\* a dry run of a request and of a collection that passed validation, listed
\* the collection and returned
C25_Witness ==
    /\ tool.op \in RunTools /\ tool.params.dryRun
    /\ tool.kind = "value"
    /\ tool.reads = {<<"/", "a", "c">>}
    /\ config.security.allowedPaths # <<>>

\* C26: with useMockCLI set, request runs, collection runs and availability
\* checks do not spawn the real executor
C26_MockNeverSpawns ==
    (config.useMockCLI /\ tool.op \in RunTools \cup {"bruno_health_check"})
    => ~(tool.spawned /\ ~tool.mock)


\* the messages a file map holds in the files of the set fs
Messages(fileMap, fs) ==
    UNION {IF fileMap[f] = Absent THEN {} ELSE Range(fileMap[f]) : f \in fs}

\* the rotated files that exist
RotatedFiles == {f \in (DOMAIN logs.files) \ {0} : logs.files[f] # Absent}

\* a step discards nothing but content of the oldest rotated file,
\* <log>.maxLogFiles
DiscardsOldestOnly ==
    Messages(logs.files, DOMAIN logs.files) \ Messages(logs'.files, DOMAIN logs.files)
      \subseteq Messages(logs.files, {logs.maxLogFiles})

\* C27 (retention): the rotated files that exist are among <log>.1 ..
\* <log>.maxLogFiles, so there are at most maxLogFiles of them
C27_AtMostMaxLogFiles ==
    logs # <<>> =>
      /\ RotatedFiles \subseteq 1..logs.maxLogFiles
      /\ Cardinality(RotatedFiles) <= logs.maxLogFiles

\* C27: every step of a rotation moves <log>.i to <log>.(i+1), or the current
\* file to <log>.1, and in doing so discards no content but that of the
\* oldest rotated file
C27_OnlyOldestDiscarded ==
    [][logs # <<>> => DiscardsOldestOnly]_vars

\* the same for rotations that do not overlap: no log call arrived while the
\* file operations of another were in progress
C27_SequentialRotations ==
    [][(logs # <<>> /\ ~logs'.overlap) => DiscardsOldestOnly]_vars


\* C28: a call of runRequest or runCollection that invoked the executor and
\* then returned or raised has attempted to delete the temporary artifact:
\* on success, on a non-zero exit, on a timeout, with an artifact that is
\* missing or unparsable, and when the normalizer raised
C28_ArtifactDeletionAttempted ==
    (run.op \in {"runRequest", "runCollection"} /\ run.invoked
        /\ run.kind \in {"value", "error"})
        => run.unlinks >= 1

\* runCollection raised because the normalizer raised on the artifact it had
\* read, after deleting the artifact in the try block and again in the catch
C28_Witness ==
    /\ run.op = "runCollection" /\ run.invoked
    /\ run.kind = "error" /\ run.error = "typeError"
    /\ run.unlinks = 2


\* the entry of the file getRequestDetails parsed is in the list that
\* listRequests returned
Listed == Parsed /\ \E n \in 1..Len(listing) : listing[n].path = details.file

ListedRequest == listing[CHOOSE n \in 1..Len(listing) : listing[n].path = details.file]

\* C29: the method and the url that listRequests reports for a request file
\* equal the method and the url that getRequestDetails reports for that file,
\* where a method or url that listRequests leaves out counts as equal to the
\* GET or the empty url that getRequestDetails reports in its place
C29_ListingAgreesWithDetails ==
    Listed =>
      /\ (IF ListedRequest.hasMethod THEN ListedRequest.method ELSE "GET")
            = details.value.method
      /\ (IF ListedRequest.hasUrl THEN ListedRequest.url ELSE <<>>)
            = details.value.url

\* the same where a method or url that listRequests leaves out equals nothing
C29_AgreesExactly ==
    Listed =>
      /\ ListedRequest.hasMethod
      /\ ListedRequest.method = details.value.method
      /\ ListedRequest.hasUrl
      /\ ListedRequest.url = details.value.url

\* the two agree on the files with at most one method block, which holds its
\* url and ends with a brace on a line of its own
C29_SingleOwnLineBlock ==
    (Listed /\ ParsedContent \in RequestTexts) => C29_ListingAgreesWithDetails


----------------------------------------------------------------------------
(* Execution metrics *)

\* PerformanceManager.maxMetrics
maxMetrics == 1000

\* the number of recordMetric calls followed
MaxRecorded == 1003

\* Array.prototype.slice(-n) for a positive n: the last n elements
sliceLast(array, n) ==
    IF Len(array) <= n THEN array ELSE SubSeq(array, Len(array) - n + 1, Len(array))

\* recordMetric without the truncation
recordMetricKeepingAll(buffer, metric) == Append(buffer, metric)

\* PerformanceManager.recordMetric: the buffer after the call
recordMetric(buffer, metric) ==
    LET pushed == Append(buffer, metric) IN
    IF Len(pushed) > maxMetrics THEN sliceLast(pushed, maxMetrics) ELSE pushed

\* the calls of recordMetric made so far; the clock of the timestamps ticks
\* once per call
Recorded == IF metrics = <<>> THEN 0 ELSE metrics[Len(metrics)].timestamp

\* the finally block of trackExecution and measureExecution
RecordMetric ==
    /\ Recorded < MaxRecorded
    /\ metrics' = recordMetric(metrics, [tool |-> "bruno_run_request", success |-> TRUE,
                                         timestamp |-> Recorded + 1])
    /\ UNCHANGED <<files, envContent, details, norm>>
    /\ UNCHANGED <<discVars, cacheEnabled, cacheVars, listVars, runVars>>
    /\ UNCHANGED <<config, tool, logs, listing>>

InitMetrics ==
    /\ markers = {}
    /\ unreadable = {}
    /\ cacheEnabled = TRUE
    /\ disc = NoDisc
    /\ instance = "requestList"
    /\ CacheInit /\ ListInit /\ AuxInit /\ RunInit /\ TextInit

NextMetrics == RecordMetric

SpecMetrics == InitMetrics /\ [][NextMetrics]_vars

\* C30: the metrics buffer never holds more than 1000 entries, and a call of
\* recordMetric on a buffer of 1000 entries drops the oldest entry only: the
\* other entries keep their order and the new entry comes last
C30_BufferBounded ==
    /\ [](Len(metrics) <= maxMetrics)
    /\ [][Len(metrics) = maxMetrics =>
            /\ Len(metrics') = maxMetrics
            /\ \A i \in 2..maxMetrics : metrics'[i - 1] = metrics[i]
            /\ metrics'[maxMetrics] \notin Range(metrics)]_vars

\* more than 1000 metrics were recorded: the buffer is full and its oldest
\* entry is not the first one recorded
C30_Witness ==
    /\ Recorded > maxMetrics
    /\ Len(metrics) = maxMetrics
    /\ metrics[1].timestamp > 1

====
